---------------------------- MODULE Spec2Model ----------------------------
(***************************************************************************)
(* A model of the OpenVPN management client (package ovmgmt): the          *)
(* demultiplexer, the event assembler (eventScanner), the event factory,   *)
(* the command channel and the periodic 'status 3' poller.                 *)
(*                                                                         *)
(* A Go string is a sequence of one-character strings; an int64 is kept as *)
(* its canonical decimal text (what strconv.FormatInt prints), so that no  *)
(* value is cut to the 32-bit integers of TLC.                             *)
(***************************************************************************)
EXTENDS Integers, Sequences, FiniteSets, TLC

(***************************************************************************)
(* Protocol constants.                                                     *)
(***************************************************************************)
newlineSep == <<"\n">>
successPrefix == <<"S", "U", "C", "C", "E", "S", "S", ":", " ">>
errorPrefix == <<"E", "R", "R", "O", "R", ":", " ">>
endMessage == <<"E", "N", "D">>

eventSep == ":"
fieldSep == ","
clientEnvMarker == <<"E", "N", "V">>
clientEnvKVSep == "="

byteCountEventKW == <<"B", "Y", "T", "E", "C", "O", "U", "N", "T">>
byteCountCliEventKW == byteCountEventKW \o <<"_", "C", "L", "I">>
echoEventKW == <<"E", "C", "H", "O">>
fatalEventKW == <<"F", "A", "T", "A", "L">>
holdEventKW == <<"H", "O", "L", "D">>
infoEventKW == <<"I", "N", "F", "O">>
logEventKW == <<"L", "O", "G">>
needOkEventKW == <<"N", "E", "E", "D", "-", "O", "K">>
needStrEventKW == <<"N", "E", "E", "D", "-", "S", "T", "R">>
passwordEventKW == <<"P", "A", "S", "S", "W", "O", "R", "D">>
stateEventKW == <<"S", "T", "A", "T", "E">>
clientEventKW == <<"C", "L", "I", "E", "N", "T">>

emSingleLine == << >>
emClient == clientEventKW \o <<eventSep>> \o clientEnvMarker \o <<fieldSep>> \o endMessage

CEUnknown == <<"U", "N", "K", "N", "O", "W", "N">>
CEConnect == <<"C", "O", "N", "N", "E", "C", "T">>
CEReauth == <<"R", "E", "A", "U", "T", "H">>
CEEstablished == <<"E", "S", "T", "A", "B", "L", "I", "S", "H", "E", "D">>
CEDisconnect == <<"D", "I", "S", "C", "O", "N", "N", "E", "C", "T">>
CEAddress == <<"A", "D", "D", "R", "E", "S", "S">>

\* The marker that starts an asynchronous notification line on the wire.
asyncMarker == ">"

(***************************************************************************)
(* strings package.                                                        *)
(***************************************************************************)
\* strings.HasPrefix
HasPrefix(s, p) == Len(s) >= Len(p) /\ SubSeq(s, 1, Len(p)) = p

\* strings.Index for a one-character separator: 0-based, -1 when absent.
Index(s, c) ==
    IF \E i \in 1..Len(s) : s[i] = c
    THEN (CHOOSE i \in 1..Len(s) : s[i] = c /\ \A j \in 1..(i - 1) : s[j] # c) - 1
    ELSE -1

\* s[from:] with a 0-based offset.
SliceFrom(s, from) == SubSeq(s, from + 1, Len(s))

\* s[:to] with a 0-based, exclusive end.
SliceTo(s, to) == SubSeq(s, 1, to)

\* strings.SplitN(s, sep, n) for n > 0 and a one-character separator.
RECURSIVE SplitN(_, _, _)
SplitN(s, sep, n) ==
    IF n <= 1 \/ Index(s, sep) = -1
    THEN <<s>>
    ELSE <<SliceTo(s, Index(s, sep))>> \o SplitN(SliceFrom(s, Index(s, sep) + 1), sep, n - 1)

\* strings.Join
RECURSIVE Join(_, _)
Join(parts, sep) ==
    IF parts = << >> THEN << >>
    ELSE IF Len(parts) = 1 THEN parts[1]
    ELSE parts[1] \o sep \o Join(Tail(parts), sep)

\* A faulty stringsSplitNK that returns what strings.SplitN gave, unpadded.
stringsSplitNK_NoPad(s, sep, n, k) == SplitN(s, sep, n)

stringsSplitNK(s, sep, n, k) ==
    LET parts == SplitN(s, sep, n)
    IN  IF Len(parts) >= k
        THEN parts
        ELSE [i \in 1..k |-> IF i <= Len(parts) THEN parts[i] ELSE << >>]

(***************************************************************************)
(* strconv package: values are canonical decimal texts.                    *)
(***************************************************************************)
DigitChars == <<"0", "1", "2", "3", "4", "5", "6", "7", "8", "9">>
IsDigit(c) == \E i \in 1..10 : DigitChars[i] = c
DigitVal(c) == (CHOOSE i \in 1..10 : DigitChars[i] = c) - 1

Zero == <<"0">>
MaxInt64Text == <<"9", "2", "2", "3", "3", "7", "2", "0", "3", "6",
                  "8", "5", "4", "7", "7", "5", "8", "0", "7">>
MinInt64Magnitude == <<"9", "2", "2", "3", "3", "7", "2", "0", "3", "6",
                       "8", "5", "4", "7", "7", "5", "8", "0", "8">>

RECURSIVE StripZeros(_)
StripZeros(d) == IF Len(d) > 1 /\ d[1] = "0" THEN StripZeros(Tail(d)) ELSE d

\* a < b for two digit texts of the same length.
RECURSIVE LexLess(_, _)
LexLess(a, b) ==
    IF a = << >> THEN FALSE
    ELSE IF a[1] # b[1] THEN DigitVal(a[1]) < DigitVal(b[1])
    ELSE LexLess(Tail(a), Tail(b))

\* a < b for two digit texts without leading zeros.
MagnitudeLess(a, b) == Len(a) < Len(b) \/ (Len(a) = Len(b) /\ LexLess(a, b))

\* strconv.Itoa(n): the decimal text of n.
RECURSIVE Digits(_)
Digits(n) == IF n < 10 THEN <<DigitChars[n + 1]>>
             ELSE Append(Digits(n \div 10), DigitChars[(n % 10) + 1])
Itoa(n) == IF n < 0 THEN <<"-">> \o Digits(-n) ELSE Digits(n)

NoErr == [kind |-> "nil"]
NumError(fn, num, why) == [kind |-> "NumError", func |-> fn, num |-> num, err |-> why]
ErrorString(msg, arg) == [kind |-> "errorString", msg |-> msg, arg |-> arg]

\* strconv.ParseInt(s, 10, 64)
ParseInt(s) ==
    IF s = << >>
    THEN [val |-> Zero, err |-> NumError("ParseInt", s, "invalid syntax")]
    ELSE LET neg == s[1] = "-"
             d == IF s[1] \in {"+", "-"} THEN Tail(s) ELSE s
         IN  IF d = << >> \/ \E i \in 1..Len(d) : ~IsDigit(d[i])
             THEN [val |-> Zero, err |-> NumError("ParseInt", s, "invalid syntax")]
             ELSE LET m == StripZeros(d)
                      cutoff == IF neg THEN MinInt64Magnitude ELSE MaxInt64Text
                  IN  IF MagnitudeLess(cutoff, m)
                      THEN [val |-> IF neg THEN <<"-">> \o cutoff ELSE cutoff,
                            err |-> NumError("ParseInt", s, "value out of range")]
                      ELSE [val |-> IF neg /\ m # Zero THEN <<"-">> \o m ELSE m,
                            err |-> NoErr]

\* strconv.ParseBool
ParseBool(s) ==
    IF s \in {<<"1">>, <<"t">>, <<"T">>, <<"T", "R", "U", "E">>,
              <<"t", "r", "u", "e">>, <<"T", "r", "u", "e">>}
    THEN [val |-> TRUE, err |-> NoErr]
    ELSE IF s \in {<<"0">>, <<"f">>, <<"F">>, <<"F", "A", "L", "S", "E">>,
                   <<"f", "a", "l", "s", "e">>, <<"F", "a", "l", "s", "e">>}
    THEN [val |-> FALSE, err |-> NoErr]
    ELSE [val |-> FALSE, err |-> NumError("ParseBool", s, "invalid syntax")]

(***************************************************************************)
(* Event variants and their constructors.  A Go constructor that returns   *)
(* (event, error) is a record [evt, err].                                  *)
(***************************************************************************)
ErrNoMsgFieldSep == [kind |-> "OVpnError", msg |-> "no field sep ',' found"]

NewMalformedEvent(raw) == [variant |-> "Malformed", raw |-> raw]
\* NewSimpleEvent taking its keyword for one it does not know.
NewSimpleEvent_AsUnknown(keyword, body) ==
    [variant |-> "Unknown", keyword |-> keyword, body |-> body]
NewSimpleEvent(keyword, body) == [variant |-> "Simple", keyword |-> keyword, body |-> body]
\* NewUnknownEvent keeping the body up to its next ':' only.
NewUnknownEvent_CutBody(keyword, body) ==
    [variant |-> "Unknown", keyword |-> keyword,
     body |-> IF Index(body, eventSep) = -1 THEN body
              ELSE SliceTo(body, Index(body, eventSep))]
NewUnknownEvent(keyword, body) == [variant |-> "Unknown", keyword |-> keyword, body |-> body]
NewInvalidEvent(evt, err) == [variant |-> "Invalid", orig |-> evt, firstError |-> err]
NewHoldEvent(body) == [variant |-> "Hold", body |-> body]

\* Raw() of the single-line variants: the Simple and the Unknown event put the
\* keyword back, the Malformed event has the line itself, the others their body.
Raw(e) ==
    CASE e.variant = "Malformed" -> e.raw
      [] e.variant \in {"Simple", "Unknown"} -> e.keyword \o <<eventSep>> \o e.body
      [] e.variant \in {"Hold", "Log", "State", "Echo", "ByteCount", "ByteCountClient"}
           -> e.body

\* MalformedEvent.String without the quoting of %q: the line as it is.
String_Unquoted(e) ==
    <<"M", "a", "l", "f", "o", "r", "m", "e", "d", " ", "E", "v", "e", "n", "t", " ">>
        \o e.raw

\* String() of the Malformed event.  The verb %q puts the line between double
\* quotes and a backslash before each double quote and each backslash of it
\* (the lines here are printable ASCII, which %q leaves as it is otherwise).
String(e) ==
    LET RECURSIVE Escape(_)
        Escape(t) ==
            IF t = << >> THEN << >>
            ELSE (IF Head(t) \in {"\"", "\\"} THEN <<"\\", Head(t)>> ELSE <<Head(t)>>)
                     \o Escape(Tail(t))
    IN  <<"M", "a", "l", "f", "o", "r", "m", "e", "d", " ", "E", "v", "e", "n", "t", " ">>
            \o <<"\"">> \o Escape(e.raw) \o <<"\"">>

\* NewLogEvent without its error: a timestamp that does not parse goes unnoticed.
NewLogEvent_NoError(body) ==
    LET parts == stringsSplitNK(body, fieldSep, 3, 3)
    IN  [evt |-> [variant |-> "Log", body |-> body, bodyParts |-> parts,
                  ts |-> ParseInt(parts[1]).val],
         err |-> NoErr]

NewLogEvent(body) ==
    LET parts == stringsSplitNK(body, fieldSep, 3, 3)
        ts == ParseInt(parts[1])
    IN  [evt |-> [variant |-> "Log", body |-> body, bodyParts |-> parts, ts |-> ts.val],
         err |-> ts.err]

NewStateEvent(body) ==
    LET parts == stringsSplitNK(body, fieldSep, 9, 5)
        ts == ParseInt(parts[1])
    IN  [evt |-> [variant |-> "State", body |-> body, bodyParts |-> parts, ts |-> ts.val],
         err |-> ts.err]

\* NewEchoEvent taking the message only after the timestamp has parsed.
NewEchoEvent_MsgAfterParse(body) ==
    LET sepIndex == Index(body, fieldSep)
        ts == ParseInt(SliceTo(body, sepIndex))
    IN  IF sepIndex = -1
        THEN [evt |-> [variant |-> "Echo", body |-> body, ts |-> Zero, msg |-> << >>],
              err |-> ErrNoMsgFieldSep]
        ELSE [evt |-> [variant |-> "Echo", body |-> body, ts |-> ts.val,
                       msg |-> IF ts.err = NoErr THEN SliceFrom(body, sepIndex + 1)
                               ELSE << >>],
              err |-> ts.err]

NewEchoEvent(body) ==
    LET sepIndex == Index(body, fieldSep)
        ts == ParseInt(SliceTo(body, sepIndex))
    IN  IF sepIndex = -1
        THEN [evt |-> [variant |-> "Echo", body |-> body, ts |-> Zero, msg |-> << >>],
              err |-> ErrNoMsgFieldSep]
        ELSE [evt |-> [variant |-> "Echo", body |-> body, ts |-> ts.val,
                       msg |-> SliceFrom(body, sepIndex + 1)],
              err |-> ts.err]

NewByteCountEvent(body) ==
    LET bodyParts == stringsSplitNK(body, fieldSep, 2, 2)
        in == ParseInt(bodyParts[1])
        out == ParseInt(bodyParts[2])
        e == [variant |-> "ByteCount", body |-> body, bytesIn |-> in.val, bytesOut |-> Zero]
    IN  IF in.err # NoErr THEN [evt |-> e, err |-> in.err]
        ELSE [evt |-> [e EXCEPT !.bytesOut = out.val], err |-> out.err]

NewByteCountClientEvent(body) ==
    LET bodyParts == stringsSplitNK(body, fieldSep, 3, 3)
        cid == ParseInt(bodyParts[1])
        in == ParseInt(bodyParts[2])
        out == ParseInt(bodyParts[3])
        e == [variant |-> "ByteCountClient", body |-> body, cid |-> cid.val,
              bytesIn |-> Zero, bytesOut |-> Zero]
    IN  IF cid.err # NoErr THEN [evt |-> e, err |-> cid.err]
        ELSE IF in.err # NoErr THEN [evt |-> [e EXCEPT !.bytesIn = in.val], err |-> in.err]
        ELSE [evt |-> [e EXCEPT !.bytesIn = in.val, !.bytesOut = out.val], err |-> out.err]

\* A Go map[string]string is a function from its keys; nil and empty both print map[].
EmptyEnv == [k \in {} |-> << >>]
EnvPut(envs, name, value) ==
    [k \in DOMAIN envs \cup {name} |-> IF k = name THEN value ELSE envs[k]]

\* The loop of NewClientEvent with a value that ends at the next '='.
RECURSIVE ClientEnvLoop_CutValue(_, _)
ClientEnvLoop_CutValue(envs, lines) ==
    IF lines = << >> THEN [envs |-> envs, err |-> NoErr]
    ELSE IF ~HasPrefix(lines[1], clientEnvMarker \o <<fieldSep>>)
    THEN [envs |-> envs,
          err |-> ErrorString("no env prefix in client event line: ", lines[1])]
    ELSE LET kvLine == SliceFrom(lines[1], Len(clientEnvMarker \o <<fieldSep>>))
             parts == stringsSplitNK(kvLine, clientEnvKVSep, 2, 2)
             value == IF Index(parts[2], clientEnvKVSep) = -1 THEN parts[2]
                      ELSE SliceTo(parts[2], Index(parts[2], clientEnvKVSep))
         IN  ClientEnvLoop_CutValue(EnvPut(envs, parts[1], value), Tail(lines))

\* The loop of NewClientEvent over payload[1:].
RECURSIVE ClientEnvLoop(_, _)
ClientEnvLoop(envs, lines) ==
    IF lines = << >> THEN [envs |-> envs, err |-> NoErr]
    ELSE IF ~HasPrefix(lines[1], clientEnvMarker \o <<fieldSep>>)
    THEN [envs |-> envs,
          err |-> ErrorString("no env prefix in client event line: ", lines[1])]
    ELSE LET kvLine == SliceFrom(lines[1], Len(clientEnvMarker \o <<fieldSep>>))
             parts == stringsSplitNK(kvLine, clientEnvKVSep, 2, 2)
         IN  ClientEnvLoop(EnvPut(envs, parts[1], parts[2]), Tail(lines))

\* The value a Go index expression payload[0] panics on.
GoPanic == [variant |-> "panic"]

NewClientEvent(payload) ==
    IF payload = << >> THEN [evt |-> GoPanic, err |-> NoErr]
    ELSE
    LET params == stringsSplitNK(payload[1], fieldSep, 4, 4)
        c0 == [variant |-> "Client", rawHeader |-> payload[1], ceType |-> << >>,
               cid |-> Zero, kid |-> Zero, addr |-> << >>, isAddrPri |-> FALSE,
               envs |-> EmptyEnv]
        known == {CEConnect, CEReauth, CEEstablished, CEDisconnect, CEAddress}
        c1 == [c0 EXCEPT !.ceType = params[1]]
        cid == ParseInt(params[2])
        c2 == [c1 EXCEPT !.cid = cid.val]
        kid == ParseInt(params[3])
        c3 == IF c2.ceType \in {CEConnect, CEReauth} THEN [c2 EXCEPT !.kid = kid.val] ELSE c2
        pri == ParseBool(params[4])
        loop == ClientEnvLoop(EmptyEnv, Tail(payload))
    IN  IF params[1] \notin known
        THEN [evt |-> [c0 EXCEPT !.ceType = CEUnknown],
              err |-> ErrorString("unknown client event type: ", params[1])]
        ELSE IF cid.err # NoErr THEN [evt |-> c2, err |-> cid.err]
        ELSE IF c2.ceType \in {CEConnect, CEReauth} /\ kid.err # NoErr
        THEN [evt |-> c3, err |-> kid.err]
        ELSE IF c3.ceType = CEAddress
        THEN [evt |-> [c3 EXCEPT !.addr = params[3], !.isAddrPri = pri.val], err |-> pri.err]
        ELSE [evt |-> [c3 EXCEPT !.envs = loop.envs], err |-> loop.err]

(***************************************************************************)
(* The event factory.                                                      *)
(***************************************************************************)
\* splitEvent returns (endMarker, keyword, body).
splitEvent(line) ==
    LET splitIdx == Index(line, eventSep)
        keyword == SliceTo(line, splitIdx)
        body == SliceFrom(line, splitIdx + 1)
    IN  IF splitIdx = -1
        THEN [endMarker |-> emSingleLine, keyword |-> << >>, body |-> line]
        ELSE IF /\ keyword = clientEventKW
                /\ \/ HasPrefix(body, CEConnect)
                   \/ HasPrefix(body, CEReauth)
                   \/ HasPrefix(body, CEEstablished)
                   \/ HasPrefix(body, CEDisconnect)
                   \/ HasPrefix(body, clientEnvMarker)
        THEN [endMarker |-> emClient, keyword |-> keyword, body |-> body]
        ELSE [endMarker |-> emSingleLine, keyword |-> keyword, body |-> body]

\* The tail of upgradeEvent and upgradeMultilineEvent: wrap on error.
WrapInvalid(r) == IF r.err # NoErr THEN NewInvalidEvent(r.evt, r.err) ELSE r.evt

upgradeEvent(keyword, body) ==
    WrapInvalid(
        CASE keyword = << >> -> [evt |-> NewMalformedEvent(body), err |-> NoErr]
          [] keyword = logEventKW -> NewLogEvent(body)
          [] keyword = stateEventKW -> NewStateEvent(body)
          [] keyword = holdEventKW -> [evt |-> NewHoldEvent(body), err |-> NoErr]
          [] keyword = echoEventKW -> NewEchoEvent(body)
          [] keyword = byteCountEventKW -> NewByteCountEvent(body)
          [] keyword = byteCountCliEventKW -> NewByteCountClientEvent(body)
          [] keyword = clientEventKW -> NewClientEvent(<<body>>)
          [] keyword \in {infoEventKW, needOkEventKW, needStrEventKW,
                          passwordEventKW, fatalEventKW}
               -> [evt |-> NewSimpleEvent(keyword, body), err |-> NoErr]
          [] OTHER -> [evt |-> NewUnknownEvent(keyword, body), err |-> NoErr])

upgradeMultilineEvent(keyword, body) ==
    WrapInvalid(
        CASE keyword = << >> -> [evt |-> NewMalformedEvent(Join(body, newlineSep)), err |-> NoErr]
          [] keyword = clientEventKW -> NewClientEvent(body)
          [] OTHER -> [evt |-> NewUnknownEvent(keyword, Join(body, newlineSep)), err |-> NoErr])

(***************************************************************************)
(* Bounds of the model and the lines the daemon may put on the stream.     *)
(***************************************************************************)
\* Event lines the daemon emits in the assembler-only specification.
MaxAsmLines == 4
\* Capacity of the caller's event channel (eventCh).
SinkCap == 1

LineHold == <<asyncMarker>> \o holdEventKW \o <<eventSep, "w">>
LineConnect == <<asyncMarker>> \o clientEventKW \o <<eventSep>> \o CEConnect
                   \o <<fieldSep, "7", fieldSep, "2">>
LineReauth == <<asyncMarker>> \o clientEventKW \o <<eventSep>> \o CEReauth
                   \o <<fieldSep, "7", fieldSep, "3">>
LineEstablished == <<asyncMarker>> \o clientEventKW \o <<eventSep>> \o CEEstablished
                   \o <<fieldSep, "7">>
LineDisconnect == <<asyncMarker>> \o clientEventKW \o <<eventSep>> \o CEDisconnect
                   \o <<fieldSep, "7">>
LineEnv == <<asyncMarker>> \o clientEventKW \o <<eventSep>> \o clientEnvMarker
                   \o <<fieldSep, "a", clientEnvKVSep, "b">>
LineEnvEnd == <<asyncMarker>> \o emClient

AsmLines == {LineHold, LineConnect, LineReauth, LineEstablished, LineDisconnect,
             LineEnv, LineEnvEnd}

\* Event lines the daemon sends in the specification of CLIENT blocks.
MaxBlockLines == 4

\* Event lines of any content, for the event factory: how many, and which.  Each
\* keyword comes with an empty body and with a body of two numbers; CLIENT comes
\* with headers and ENV lines, whole and cut short.
MaxFactoryLines == 2
FactoryLines ==
    LET kws == {<< >>, logEventKW, stateEventKW, echoEventKW, byteCountEventKW,
                byteCountCliEventKW, <<"F", "O", "O">>}
        bodies == {<< >>, <<"1", fieldSep, "2">>}
        clientBodies == {<< >>, <<"x">>, CEAddress \o <<fieldSep, "1", fieldSep, "a">>,
                         CEConnect, CEConnect \o <<fieldSep, "1", fieldSep, "2">>,
                         CEConnect \o <<"x">>, clientEnvMarker,
                         clientEnvMarker \o <<fieldSep, "k">>,
                         clientEnvMarker \o <<fieldSep>> \o endMessage}
    IN  {<<asyncMarker>>, <<asyncMarker, "x">>, LineHold,
         <<asyncMarker>> \o infoEventKW \o <<eventSep, "x">>}
        \cup {<<asyncMarker>> \o k \o <<eventSep>> \o b : k \in kws, b \in bodies}
        \cup {<<asyncMarker>> \o clientEventKW \o <<eventSep>> \o b : b \in clientBodies}

\* Event lines of any content, one keyword after the other with bodies whose
\* numbers parse, do not parse, overflow, are missing or are too many, and lines
\* without separator; and how many such lines the daemon sends.
MaxUpgradeLines == 1
UpgradeLines ==
    LET kws == {<< >>, logEventKW, stateEventKW, holdEventKW, echoEventKW,
                byteCountEventKW, byteCountCliEventKW, clientEventKW, infoEventKW,
                needOkEventKW, needStrEventKW, passwordEventKW, fatalEventKW,
                <<"F", "O", "O">>, <<"l", "o", "g">>}
        bodies == {<< >>, <<"x">>, <<"1", ",", "2">>, <<"x", ",", "2">>,
                   <<"1", ",", "x">>, <<",", "6">>, <<"1", ",", "2", ",", "3">>,
                   <<"1", ",", "x", ",", "3">>, <<"x", ",", "2", ",", "3">>,
                   <<"9", "9", "9", "9", "9", "9", "9", "9", "9", "9",
                     "9", "9", "9", "9", "9", "9", "9", "9", "9", "9", ",", "2">>,
                   <<"-", "5", ",", "7", ":", "8">>, <<"1", "2", ",">>}
        bare == {<< >>, <<"x">>, <<"a", "\"", "b">>, <<"a", "\\", "b">>,
                 <<"1", ",", "2">>, <<"L", "O", "G">>}
    IN  {<<asyncMarker>> \o k \o <<eventSep>> \o b : k \in kws, b \in bodies}
        \cup {<<asyncMarker>> \o b : b \in bare}

\* Event lines of the keywords whose factories split their body into fields, with
\* bodies of no field up to ten; and how many such lines the daemon sends.
MaxSplitLines == 1
SplitLines ==
    LET kws == {logEventKW, stateEventKW, byteCountEventKW, byteCountCliEventKW}
        bodies == {<< >>, <<"x">>, <<"1", ",", "2">>, <<",", "6">>, <<"1", "2", ",">>,
                   <<"1", ",", ",", "3">>, <<"1", ",", "2", ",", "3">>,
                   <<"1", ",", "2", ",", "3", ",", "4">>,
                   <<"1", ",", "2", ",", "3", ",", "4", ",", "5">>,
                   <<"1", ",", "2", ",", "3", ",", "4", ",", "5", ",", "6", ",", "7",
                     ",", "8", ",", "9", ",", "0">>}
    IN  {<<asyncMarker>> \o k \o <<eventSep>> \o b : k \in kws, b \in bodies}

\* Event lines the daemon emits in the specifications with commands.
MaxCmdEvents == 2
CmdLines == {LineHold, LineEnv}
\* Command calls the caller makes.
MaxCmds == 2
\* Event lines and command calls in the runs followed to their end.
MaxFairEvents == 2
FairLines == {LineHold}
MaxFairCmds == 1
\* Event lines and command calls beside the poller.
MaxPollEvents == 1
PollLines == {LineHold}
MaxPollCmds == 1
\* Calls of SetStatus3Events.
MaxSetCalls == 2
\* Ticks the poller's tickers deliver.
MaxTicks == 2
\* Calls of SetStatus3Events when nothing but the poller uses the client.
MaxPollSetCalls == 3
\* The intervals SetStatus3Events is called with: negative, zero, positive.
Intervals == {-1, 0, 1}

\* Event lines and command calls where the caller leaves its event channel full.
MaxStallEvents == 3
MaxStallCmds == 1
\* Calls of SetVerbosityLevel.
MaxVerbCalls == 2
\* The levels SetVerbosityLevel is called with: the ends of the range and beyond.
VerbLevels == {-1, 0, 1, 15, 16}

\* The text of a command, as the one string written to the transport.
RECURSIVE Text(_)
Text(chars) == IF chars = << >> THEN "" ELSE chars[1] \o Text(Tail(chars))
\* "verb " + strconv.Itoa(level)
VerbCmd(level) == "verb " \o Text(Itoa(level))
IsVerbCmd(cmd) == \E level \in VerbLevels : cmd = VerbCmd(level)

\* Calls of LatestState made against a daemon that sends any lines at all.
MaxPayloadCalls == 2
\* Reply lines such a daemon has sent before the first call, and their number.
MaxStreamLines == 4
ReplyStreams ==
    LET lines == {endMessage, <<"a">>, <<"E", "N", "D", " ">>, errorPrefix \o <<"x">>}
    IN  UNION {[1..n -> lines] : n \in 0..MaxStreamLines}

\* Calls of SetStatus3Events against a daemon that answers 'status 3' with any
\* lines at all, and the lines of such a reply before its END.
MaxStatus3Calls == 1
MaxStatus3Lines == 2
Status3Streams ==
    LET tab == "\t"
        lines == {<<"T", "I", "T", "L", "E", tab, "v">>,
                  <<"T", "I", "M", "E">>,
                  <<"T", "I", "M", "E", tab, "a">>,
                  <<"T", "I", "M", "E", tab, "a", tab, "5">>,
                  <<"T", "I", "M", "E", tab, "a", tab, "x">>,
                  <<"H", "E", "A", "D", "E", "R">>,
                  <<"H", "E", "A", "D", "E", "R", tab, "h", tab, "n">>,
                  <<"C", "L", "I", "E", "N", "T", "_", "L", "I", "S", "T", tab, "c">>,
                  << >>,
                  <<"x">>}
    IN  {p \o <<endMessage>> : p \in UNION {[1..n -> lines] : n \in 0..MaxStatus3Lines}}

\* The commands of the model: simpleCommand("pid"), LatestState and LatestStatus3.
CallerCmds == {"pid", "state"}
\* The command the caller issues beside the poller: LatestState.
PollCmds == {"state"}
IsPayloadCmd(cmd) == cmd \in {"state", "status 3"}

\* What the daemon answers to its n-th command; d marks the reply.
ReplyChoices(cmd, d) ==
    CASE cmd = "pid" ->
           {<<successPrefix \o <<"p", "i", "d", "=", d>> >>,
            <<errorPrefix \o <<"n", "o", d>> >>}
      [] cmd = "state" ->
           {<<(<<d, fieldSep>> \o <<"E", "X", "I", "T", "I", "N", "G">>), endMessage>>}
      [] IsVerbCmd(cmd) ->
           {<<successPrefix \o <<"v", "e", "r", "b", "=", d>> >>,
            <<errorPrefix \o <<"n", "o", d>> >>,
            <<(<<"S", "U", "C", "C", "E", "S", "S", ":", d>>)>>}
      [] OTHER ->
           {<<(<<"T", "I", "T", "L", "E", "\t", "v", d>>), endMessage>>}

(***************************************************************************)
(* State.                                                                  *)
(***************************************************************************)
VARIABLES
    srcClosed,   \* the line source has signalled end-of-stream or an error
    dpc,         \* Demultiplex: "scan", "event", "reply" (blocked sending) or "done"
    dline,       \* Demultiplex: the line it is sending
    evClosed,    \* rawEventCh is closed
    repClosed,   \* rawReplyCh is closed
    spc,         \* eventScanner: its position
    raw,         \* eventScanner: the line taken from rawEventCh
    buf,         \* eventScanner: buf
    bufKW,       \* eventScanner: bufKW
    sink,        \* eventSink: the events queued in the caller's channel
    sinkClosed,  \* eventSink is closed
    nClose,      \* number of close(eventSink) calls made
    panicked,    \* a goroutine panicked: the process is gone
    written,     \* the commands written to the transport and not yet answered
    dReply,      \* the daemon: the lines of its current reply still to send
    cpc,         \* the caller's command call: "idle", "readResult" or "readPayload"
    ccmd,        \* the caller's command call: the command
    clines,      \* readCommandResponsePayload: lines
    doneGen,     \* c.doneStatus3Gen: the channel it holds
    nChans,      \* number of stop channels made after the first
    chClosed,    \* the stop channels that are closed
    tasks,       \* the status3EventGenerator goroutines started so far
    nTicks,      \* number of ticks delivered
    setCalls,    \* the SetStatus3Events calls between their close and their assignment
    rdLog,       \* history: the lines Demultiplex has read
    evIn,        \* history: the lines eventScanner has received, with its state then
    repIn,       \* history: the lines received from rawReplyCh, and by whom
    pushed,      \* history: the events sent on eventSink
    replies,     \* history: the replies the daemon has sent or begun to send
    results      \* history: what each command call of the caller returned

vars == <<srcClosed, dpc, dline, evClosed, repClosed, spc, raw, buf, bufKW,
          sink, sinkClosed, nClose, panicked, written, dReply, cpc, ccmd, clines,
          doneGen, nChans, chClosed, tasks, nTicks, setCalls,
          rdLog, evIn, repIn, pushed, replies, results>>

envVars == <<srcClosed, dReply, replies>>
cmdVars == <<cpc, ccmd, clines, results>>
pollVars == <<doneGen, nChans, chClosed, tasks, nTicks, setCalls>>
demuxVars == <<dpc, dline, evClosed, repClosed, rdLog>>
replyVars == <<written, repIn>>
scanVars == <<spc, raw, buf, bufKW, evIn>>
sinkVars == <<sink, sinkClosed, nClose, pushed>>

Init ==
    /\ srcClosed = FALSE
    /\ dpc = "scan"
    /\ dline = << >>
    /\ evClosed = FALSE
    /\ repClosed = FALSE
    /\ spc = "range"
    /\ raw = << >>
    /\ buf = << >>
    /\ bufKW = << >>
    /\ sink = << >>
    /\ sinkClosed = FALSE
    /\ nClose = 0
    /\ panicked = FALSE
    /\ written = << >>
    /\ dReply = << >>
    /\ cpc = "idle"
    /\ ccmd = ""
    /\ clines = << >>
    /\ doneGen = 0
    /\ nChans = 0
    /\ chClosed = {}
    /\ tasks = << >>
    /\ nTicks = 0
    /\ setCalls = << >>
    /\ rdLog = << >>
    /\ evIn = << >>
    /\ repIn = << >>
    /\ pushed = << >>
    /\ replies = << >>
    /\ results = << >>

(***************************************************************************)
(* Demultiplex, and the line source it reads: the next line of the stream  *)
(* is whatever the daemon sent, a notification or the next line of the     *)
(* reply to a command it has received.                                     *)
(***************************************************************************)
IsEventLine(l) == HasPrefix(l, <<asyncMarker>>)
CountEventLines(log) == Cardinality({i \in 1..Len(log) : IsEventLine(log[i])})

\* A faulty demultiplexer that leaves the marker on the line.
DemuxRoute_KeepMarker(line) ==
    IF Len(line) > 0 /\ line[1] = asyncMarker
    THEN [lane |-> "event", line |-> line]
    ELSE [lane |-> "reply", line |-> line]

\* The lane of a line and the text placed on it.
DemuxRoute(line) ==
    IF Len(line) > 0 /\ line[1] = asyncMarker
    THEN [lane |-> "event", line |-> Tail(line)]
    ELSE [lane |-> "reply", line |-> line]

\* Demultiplex has read a line: it goes on to send it on its lane.
DemuxTake(line) ==
    /\ dline' = DemuxRoute(line).line
    /\ dpc' = DemuxRoute(line).lane
    /\ rdLog' = Append(rdLog, line)

\* The next line read is an asynchronous notification.
DemuxReadEvent(lines, max) ==
    /\ ~panicked
    /\ dpc = "scan"
    /\ ~srcClosed
    /\ CountEventLines(rdLog) < max
    /\ \E l \in lines : DemuxTake(l)
    /\ UNCHANGED <<envVars, evClosed, repClosed, scanVars, sinkVars, panicked,
                   replyVars, cmdVars, pollVars>>

\* The next line read is a line of the daemon's reply to the oldest command
\* it has not answered yet; d marks the reply.
DemuxReadReply ==
    /\ ~panicked
    /\ dpc = "scan"
    /\ ~srcClosed
    /\ IF dReply # << >>
       THEN /\ DemuxTake(Head(dReply))
            /\ dReply' = Tail(dReply)
            /\ UNCHANGED <<written, replies>>
       ELSE /\ written # << >>
            /\ \E r \in ReplyChoices(Head(written), DigitChars[Len(replies) + 2]) :
                  /\ DemuxTake(Head(r))
                  /\ dReply' = Tail(r)
                  /\ replies' = Append(replies, r)
            /\ written' = Tail(written)
    /\ UNCHANGED <<srcClosed, evClosed, repClosed, scanVars, sinkVars, panicked, repIn,
                   cmdVars, pollVars>>

\* The transport ends: the daemon goes away or the connection breaks.
TransportClose ==
    /\ ~panicked
    /\ ~srcClosed
    /\ srcClosed' = TRUE
    /\ UNCHANGED <<dReply, replies, demuxVars, scanVars, sinkVars, panicked,
                   replyVars, cmdVars, pollVars>>

\* The line source signals end-of-stream or an error: close both lanes.
DemuxEOF ==
    /\ ~panicked
    /\ dpc = "scan"
    /\ srcClosed
    /\ dpc' = "done"
    /\ evClosed' = TRUE
    /\ repClosed' = TRUE
    /\ UNCHANGED <<envVars, dline, rdLog, scanVars, sinkVars, panicked,
                   replyVars, cmdVars, pollVars>>

(***************************************************************************)
(* eventScanner.                                                           *)
(***************************************************************************)
\* Where the loop body goes after splitEvent, and what it does to the buffer.
\* A faulty assembler that puts each continuation line in front of the buffer.
ScannerBranch_Prepend(line, kw, lines) ==
    LET sp == splitEvent(line)
    IN  IF sp.endMarker = emSingleLine
        THEN [pc |-> "sendSingle", bufKW |-> kw, buf |-> lines]
        ELSE IF line = sp.endMarker
        THEN [pc |-> "flushEnd", bufKW |-> kw, buf |-> lines]
        ELSE IF kw = << >>
        THEN [pc |-> "range", bufKW |-> sp.keyword, buf |-> <<sp.body>> \o lines]
        ELSE IF kw # sp.keyword
        THEN [pc |-> "flushMismatch", bufKW |-> kw, buf |-> lines]
        ELSE [pc |-> "range", bufKW |-> kw, buf |-> <<sp.body>> \o lines]

\* A faulty scanner that notes the keyword of a block and forgets its first line.
ScannerBranch_DropHeader(line, kw, lines) ==
    LET sp == splitEvent(line)
    IN  IF sp.endMarker = emSingleLine
        THEN [pc |-> "sendSingle", bufKW |-> kw, buf |-> lines]
        ELSE IF line = sp.endMarker
        THEN [pc |-> "flushEnd", bufKW |-> kw, buf |-> lines]
        ELSE IF kw = << >>
        THEN [pc |-> "range", bufKW |-> sp.keyword, buf |-> lines]
        ELSE IF kw # sp.keyword
        THEN [pc |-> "flushMismatch", bufKW |-> kw, buf |-> lines]
        ELSE [pc |-> "range", bufKW |-> kw, buf |-> Append(lines, sp.body)]

\* A faulty scanner that passes over a terminator when no buffer is open.
ScannerBranch_SkipBareEnd(line, kw, lines) ==
    LET sp == splitEvent(line)
    IN  IF sp.endMarker = emSingleLine
        THEN [pc |-> "sendSingle", bufKW |-> kw, buf |-> lines]
        ELSE IF line = sp.endMarker
        THEN [pc |-> IF kw = << >> /\ lines = << >> THEN "range" ELSE "flushEnd",
              bufKW |-> kw, buf |-> lines]
        ELSE IF kw = << >>
        THEN [pc |-> "range", bufKW |-> sp.keyword, buf |-> Append(lines, sp.body)]
        ELSE IF kw # sp.keyword
        THEN [pc |-> "flushMismatch", bufKW |-> kw, buf |-> lines]
        ELSE [pc |-> "range", bufKW |-> kw, buf |-> Append(lines, sp.body)]

\* A faulty scanner for which a header closes the block that is open: it flushes
\* the buffer where it should append.
ScannerBranch_HeaderFlushes(line, kw, lines) ==
    LET sp == splitEvent(line)
    IN  IF sp.endMarker = emSingleLine
        THEN [pc |-> "sendSingle", bufKW |-> kw, buf |-> lines]
        ELSE IF line = sp.endMarker
        THEN [pc |-> "flushEnd", bufKW |-> kw, buf |-> lines]
        ELSE IF kw = << >>
        THEN [pc |-> "range", bufKW |-> sp.keyword, buf |-> Append(lines, sp.body)]
        ELSE IF kw # sp.keyword \/ ~HasPrefix(sp.body, clientEnvMarker)
        THEN [pc |-> "flushMismatch", bufKW |-> kw, buf |-> lines]
        ELSE [pc |-> "range", bufKW |-> kw, buf |-> Append(lines, sp.body)]

\* The branch of the loop body a line takes, and the buffer after it.
ScannerBranch(line, kw, lines) ==
    LET sp == splitEvent(line)
    IN  IF sp.endMarker = emSingleLine
        THEN [pc |-> "sendSingle", bufKW |-> kw, buf |-> lines]
        ELSE IF line = sp.endMarker
        THEN [pc |-> "flushEnd", bufKW |-> kw, buf |-> lines]
        ELSE IF kw = << >>
        THEN [pc |-> "range", bufKW |-> sp.keyword, buf |-> Append(lines, sp.body)]
        ELSE IF kw # sp.keyword
        THEN [pc |-> "flushMismatch", bufKW |-> kw, buf |-> lines]
        ELSE [pc |-> "range", bufKW |-> kw, buf |-> Append(lines, sp.body)]

\* A faulty scanner that takes a line from rawEventCh while it is blocked at a
\* send, and drops it.
ScannerRecv_Drop ==
    /\ ~panicked
    /\ dpc = "event"
    /\ dpc' = "scan"
    /\ IF spc = "range"
       THEN /\ raw' = dline
            /\ evIn' = Append(evIn, [line |-> dline, bufKW |-> bufKW, buf |-> buf,
                                     npushed |-> Len(pushed)])
            /\ spc' = ScannerBranch(dline, bufKW, buf).pc
            /\ bufKW' = ScannerBranch(dline, bufKW, buf).bufKW
            /\ buf' = ScannerBranch(dline, bufKW, buf).buf
       ELSE UNCHANGED scanVars
    /\ UNCHANGED <<envVars, dline, evClosed, repClosed, rdLog, sinkVars, panicked,
                   replyVars, cmdVars, pollVars>>

\* for raw := range c.rawEventCh: take the line Demultiplex is sending.
ScannerRecv ==
    /\ ~panicked
    /\ spc = "range"
    /\ dpc = "event"
    /\ dpc' = "scan"
    /\ raw' = dline
    /\ evIn' = Append(evIn, [line |-> dline, bufKW |-> bufKW, buf |-> buf,
                             npushed |-> Len(pushed)])
    /\ spc' = ScannerBranch(dline, bufKW, buf).pc
    /\ bufKW' = ScannerBranch(dline, bufKW, buf).bufKW
    /\ buf' = ScannerBranch(dline, bufKW, buf).buf
    /\ UNCHANGED <<envVars, dline, evClosed, repClosed, rdLog, sinkVars, panicked,
                   replyVars, cmdVars, pollVars>>

\* The event the scanner sends at a position.
ScannerEvent(pc, line, kw, lines) ==
    IF pc \in {"sendSingle", "sendMismatch"}
    THEN upgradeEvent(splitEvent(line).keyword, splitEvent(line).body)
    ELSE upgradeMultilineEvent(kw, lines)

\* The position after the send at a position.
ScannerAfter(pc, kw, lines) ==
    IF pc = "sendSingle"
    THEN IF Len(lines) > 0 \/ kw # << >> THEN "flushAnomaly" ELSE "range"
    ELSE IF pc = "flushMismatch" THEN "sendMismatch" ELSE "range"

\* What each send is, for the history.
ScannerTag(pc) ==
    CASE pc = "sendSingle" -> "single"
      [] pc = "flushEnd" -> "end"
      [] pc = "flushAnomaly" -> "anomaly"
      [] pc = "flushMismatch" -> "flushMismatch"
      [] OTHER -> "sendMismatch"

\* A faulty scanner whose send does not wait: with eventSink full the event is
\* dropped and the loop goes on.
ScannerSend_NonBlocking ==
    /\ ~panicked
    /\ spc \in {"sendSingle", "flushAnomaly", "flushEnd", "flushMismatch", "sendMismatch"}
    /\ ~sinkClosed
    /\ IF Len(sink) < SinkCap
       THEN /\ sink' = Append(sink, ScannerEvent(spc, raw, bufKW, buf))
            /\ pushed' = Append(pushed, [ev |-> ScannerEvent(spc, raw, bufKW, buf),
                                         by |-> ScannerTag(spc), at |-> Len(evIn)])
       ELSE UNCHANGED <<sink, pushed>>
    /\ spc' = ScannerAfter(spc, bufKW, buf)
    /\ bufKW' = IF spc \in {"sendSingle", "sendMismatch"} THEN bufKW ELSE << >>
    /\ buf' = IF spc \in {"sendSingle", "sendMismatch"} THEN buf ELSE << >>
    /\ UNCHANGED <<envVars, demuxVars, raw, evIn, sinkClosed, nClose, panicked,
                   replyVars, cmdVars, pollVars>>

\* A faulty scanner whose flush sends the buffer and does not empty it.
ScannerSend_KeepBuffer ==
    /\ ~panicked
    /\ spc \in {"sendSingle", "flushAnomaly", "flushEnd", "flushMismatch", "sendMismatch"}
    /\ ~sinkClosed
    /\ Len(sink) < SinkCap
    /\ sink' = Append(sink, ScannerEvent(spc, raw, bufKW, buf))
    /\ pushed' = Append(pushed, [ev |-> ScannerEvent(spc, raw, bufKW, buf),
                                 by |-> ScannerTag(spc), at |-> Len(evIn)])
    /\ spc' = ScannerAfter(spc, bufKW, buf)
    /\ UNCHANGED <<envVars, demuxVars, raw, buf, bufKW, evIn, sinkClosed, nClose, panicked,
                   replyVars, cmdVars, pollVars>>

\* c.eventSink <- ...: one send of the loop body; flushMultilineBuf resets the
\* buffer once its send is through.
ScannerSend ==
    /\ ~panicked
    /\ spc \in {"sendSingle", "flushAnomaly", "flushEnd", "flushMismatch", "sendMismatch"}
    /\ ~sinkClosed
    /\ Len(sink) < SinkCap
    /\ sink' = Append(sink, ScannerEvent(spc, raw, bufKW, buf))
    /\ pushed' = Append(pushed, [ev |-> ScannerEvent(spc, raw, bufKW, buf),
                                 by |-> ScannerTag(spc), at |-> Len(evIn)])
    /\ spc' = ScannerAfter(spc, bufKW, buf)
    /\ bufKW' = IF spc \in {"sendSingle", "sendMismatch"} THEN bufKW ELSE << >>
    /\ buf' = IF spc \in {"sendSingle", "sendMismatch"} THEN buf ELSE << >>
    /\ UNCHANGED <<envVars, demuxVars, raw, evIn, sinkClosed, nClose, panicked,
                   replyVars, cmdVars, pollVars>>

\* A faulty scanner that returns without closing the caller's channel.
ScannerClose_Leak ==
    /\ ~panicked
    /\ spc = "range"
    /\ evClosed
    /\ spc' = "done"
    /\ UNCHANGED <<envVars, demuxVars, raw, buf, bufKW, evIn, sinkVars, panicked,
                   replyVars, cmdVars, pollVars>>

\* The range loop ends when rawEventCh is closed: close(c.eventSink).
ScannerClose ==
    /\ ~panicked
    /\ spc = "range"
    /\ evClosed
    /\ spc' = "done"
    /\ nClose' = nClose + 1
    /\ sinkClosed' = TRUE
    /\ panicked' = (panicked \/ sinkClosed)
    /\ UNCHANGED <<envVars, demuxVars, raw, buf, bufKW, evIn, sink, pushed,
                   replyVars, cmdVars, pollVars>>

(***************************************************************************)
(* The caller's event loop.                                                *)
(***************************************************************************)
\* The caller takes one event from its channel.
CallerRecv ==
    /\ ~panicked
    /\ sink # << >>
    /\ sink' = Tail(sink)
    /\ UNCHANGED <<envVars, demuxVars, scanVars, sinkClosed, nClose, pushed, panicked,
                   replyVars, cmdVars, pollVars>>

(***************************************************************************)
(* The command channel.                                                    *)
(***************************************************************************)
NewOVpnError(m) == [kind |-> "OVpnError", msg |-> m]
ErrWrite == ErrorString("write failed", << >>)
ErrClosedResult == ErrorString("connection closed while awaiting result", << >>)
ErrClosedPayload == ErrorString("connection closed before END recieved", << >>)
ErrMalformedResult == ErrorString("malformed result message", << >>)

\* A faulty readCommandResult that leaves the prefix on what it returns.
readCommandResult_KeepPrefix(reply) ==
    IF HasPrefix(reply, successPrefix)
    THEN [result |-> reply, err |-> NoErr]
    ELSE IF HasPrefix(reply, errorPrefix)
    THEN [result |-> << >>, err |-> NewOVpnError(reply)]
    ELSE [result |-> << >>, err |-> ErrMalformedResult]

\* readCommandResult, once a line has arrived.
readCommandResult(reply) ==
    IF HasPrefix(reply, successPrefix)
    THEN [result |-> SliceFrom(reply, Len(successPrefix)), err |-> NoErr]
    ELSE IF HasPrefix(reply, errorPrefix)
    THEN [result |-> << >>, err |-> NewOVpnError(SliceFrom(reply, Len(errorPrefix)))]
    ELSE [result |-> << >>, err |-> ErrMalformedResult]

\* A faulty payload read that returns the terminator with the lines.
PayloadStep_KeepEnd(lines, line) ==
    IF line = endMessage
    THEN [done |-> TRUE, lines |-> Append(lines, line)]
    ELSE [done |-> FALSE, lines |-> Append(lines, line)]

\* A faulty payload read that returns at its first line, leaving END unread.
PayloadStep_FirstLine(lines, line) ==
    IF line = endMessage
    THEN [done |-> TRUE, lines |-> lines]
    ELSE [done |-> TRUE, lines |-> Append(lines, line)]

\* A payload read that takes an ERROR line for the end of the reply.
PayloadStep_StopAtError(lines, line) ==
    IF line = endMessage \/ HasPrefix(line, errorPrefix)
    THEN [done |-> TRUE, lines |-> lines]
    ELSE [done |-> FALSE, lines |-> Append(lines, line)]

\* One turn of the loop of readCommandResponsePayload on a line that arrived.
PayloadStep(lines, line) ==
    IF line = endMessage
    THEN [done |-> TRUE, lines |-> lines]
    ELSE [done |-> FALSE, lines |-> Append(lines, line)]

\* LatestState, from what readCommandResponsePayload (or the failed write) returned.
ErrMalformedState == ErrorString("Malformed OpenVPN 'state' response", << >>)
NilState == [variant |-> "nil"]
LatestState(payload, err) ==
    IF err # NoErr THEN [evt |-> NilState, err |-> err]
    ELSE IF Len(payload) # 1 THEN [evt |-> NilState, err |-> ErrMalformedState]
    ELSE NewStateEvent(payload[1])

\* What a command call returned: result, lines and err are what the read of the
\* reply returned (or the failed write), ret is what LatestState made of it.
CallResult(cmd, wrote, result, lines, err) ==
    [cmd |-> cmd, sent |-> wrote, result |-> result, lines |-> lines, err |-> err,
     ret |-> IF IsPayloadCmd(cmd) THEN LatestState(lines, err)
             ELSE [evt |-> NilState, err |-> err]]

CallsMade == Len(results) + (IF cpc = "idle" THEN 0 ELSE 1)

\* simpleCommand / LatestState up to the write: sendCommand succeeds.
CallerCall(cmd, max) ==
    /\ ~panicked
    /\ cpc = "idle"
    /\ CallsMade < max
    /\ written' = Append(written, cmd)
    /\ ccmd' = cmd
    /\ clines' = << >>
    /\ cpc' = IF IsPayloadCmd(cmd) THEN "readPayload" ELSE "readResult"
    /\ UNCHANGED <<envVars, demuxVars, scanVars, sinkVars, panicked, repIn, results,
                   pollVars>>

\* A faulty call that goes on to wait for the reply after its write has failed.
CallerCallFail_ReadsOn(cmd, max) ==
    /\ ~panicked
    /\ cpc = "idle"
    /\ CallsMade < max
    /\ srcClosed
    /\ ccmd' = cmd
    /\ clines' = << >>
    /\ cpc' = IF IsPayloadCmd(cmd) THEN "readPayload" ELSE "readResult"
    /\ UNCHANGED <<envVars, demuxVars, scanVars, sinkVars, panicked, replyVars,
                   results, pollVars>>

\* sendCommand fails on a broken transport: the call returns the write error.
CallerCallFail(cmd, max) ==
    /\ ~panicked
    /\ cpc = "idle"
    /\ CallsMade < max
    /\ srcClosed
    /\ results' = Append(results, CallResult(cmd, FALSE, << >>, << >>, ErrWrite))
    /\ UNCHANGED <<envVars, demuxVars, scanVars, sinkVars, panicked, replyVars,
                   cpc, ccmd, clines, pollVars>>

\* The error SetVerbosityLevel starts with.
ErrBadVerbosity(level) ==
    ErrorString("bad verbosity level '%d', should be from 0 to 15", Itoa(level))

\* SetVerbosityLevel(level): simpleCommand("verb <level>") up to the write for a
\* level the condition lets through, and the error at once for any other.
SetVerbosityLevel(level, max) ==
    IF level > 0 /\ level < 16
    THEN \/ CallerCall(VerbCmd(level), max)
         \/ CallerCallFail(VerbCmd(level), max)
    ELSE /\ ~panicked
         /\ cpc = "idle"
         /\ CallsMade < max
         /\ results' = Append(results, CallResult(VerbCmd(level), FALSE, << >>, << >>,
                                                  ErrBadVerbosity(level)))
         /\ UNCHANGED <<envVars, demuxVars, scanVars, sinkVars, panicked, replyVars,
                        cpc, ccmd, clines, pollVars>>

\* reply, ok := <-c.rawReplyCh with a line.
CallerReadResult ==
    /\ ~panicked
    /\ cpc = "readResult"
    /\ dpc = "reply"
    /\ dpc' = "scan"
    /\ repIn' = Append(repIn, [line |-> dline, who |-> "caller", id |-> CallsMade])
    /\ results' = Append(results, CallResult(ccmd, TRUE, readCommandResult(dline).result,
                                             << >>, readCommandResult(dline).err))
    /\ cpc' = "idle"
    /\ UNCHANGED <<envVars, dline, evClosed, repClosed, rdLog, scanVars, sinkVars,
                   panicked, written, ccmd, clines, pollVars>>

\* reply, ok := <-c.rawReplyCh on the closed channel.
CallerReadResultClosed ==
    /\ ~panicked
    /\ cpc = "readResult"
    /\ repClosed
    /\ results' = Append(results, CallResult(ccmd, TRUE, << >>, << >>, ErrClosedResult))
    /\ cpc' = "idle"
    /\ UNCHANGED <<envVars, demuxVars, scanVars, sinkVars, panicked, replyVars,
                   ccmd, clines, pollVars>>

\* line, ok := <-c.rawReplyCh with a line, in readCommandResponsePayload.
CallerReadPayload ==
    /\ ~panicked
    /\ cpc = "readPayload"
    /\ dpc = "reply"
    /\ dpc' = "scan"
    /\ repIn' = Append(repIn, [line |-> dline, who |-> "caller", id |-> CallsMade])
    /\ IF PayloadStep(clines, dline).done
       THEN /\ results' = Append(results, CallResult(ccmd, TRUE, << >>,
                                                     PayloadStep(clines, dline).lines, NoErr))
            /\ cpc' = "idle"
            /\ clines' = << >>
       ELSE /\ clines' = PayloadStep(clines, dline).lines
            /\ UNCHANGED <<results, cpc>>
    /\ UNCHANGED <<envVars, dline, evClosed, repClosed, rdLog, scanVars, sinkVars,
                   panicked, written, ccmd, pollVars>>

\* A faulty payload read that drops what it accumulated when the channel closes.
CallerReadPayloadClosed_Drop ==
    /\ ~panicked
    /\ cpc = "readPayload"
    /\ repClosed
    /\ results' = Append(results, CallResult(ccmd, TRUE, << >>, << >>, ErrClosedPayload))
    /\ cpc' = "idle"
    /\ clines' = << >>
    /\ UNCHANGED <<envVars, demuxVars, scanVars, sinkVars, panicked, replyVars,
                   ccmd, pollVars>>

\* line, ok := <-c.rawReplyCh on the closed channel, in readCommandResponsePayload.
CallerReadPayloadClosed ==
    /\ ~panicked
    /\ cpc = "readPayload"
    /\ repClosed
    /\ results' = Append(results, CallResult(ccmd, TRUE, << >>, clines, ErrClosedPayload))
    /\ cpc' = "idle"
    /\ clines' = << >>
    /\ UNCHANGED <<envVars, demuxVars, scanVars, sinkVars, panicked, replyVars,
                   ccmd, pollVars>>

(***************************************************************************)
(* The status poller.                                                      *)
(***************************************************************************)
status3FieldSep == "\t"
status3TitleKW == <<"T", "I", "T", "L", "E">>
status3TimeKW == <<"T", "I", "M", "E">>
status3HeaderKW == <<"H", "E", "A", "D", "E", "R">>
status3ClientListKW == <<"C", "L", "I", "E", "N", "T", "_", "L", "I", "S", "T">>
status3RoutingTableKW == <<"R", "O", "U", "T", "I", "N", "G", "_", "T", "A", "B", "L", "E">>

\* strings.Split(s, sep) for a one-character separator.
RECURSIVE Split(_, _)
Split(s, sep) ==
    IF Index(s, sep) = -1 THEN <<s>>
    ELSE <<SliceTo(s, Index(s, sep))>> \o Split(SliceFrom(s, Index(s, sep) + 1), sep)

\* Status3Event{} after the make calls of NewStatus3Event.
EmptyStatus3 ==
    [variant |-> "Status3", title |-> << >>, rawHumanTS |-> << >>, rawTS |-> << >>,
     ts |-> Zero, clients |-> << >>, routes |-> << >>,
     headers |-> EmptyEnv, extra |-> EmptyEnv]

\* The loop of NewStatus3Event; an index out of range panics.  The row parsers
\* NewStatus3Client and NewStatus3Route are not expanded: a row is its field list.
RECURSIVE Status3Loop(_, _)
Status3Loop(se, payload) ==
    IF payload = << >> THEN [evt |-> se, err |-> NoErr]
    ELSE
    LET fields == Split(payload[1], status3FieldSep)
        lineType == fields[1]
        lineFields == Tail(fields)
    IN  CASE lineType = status3TitleKW ->
               Status3Loop([se EXCEPT !.title = Join(lineFields, <<status3FieldSep>>)],
                           Tail(payload))
          [] lineType = status3TimeKW ->
               IF Len(lineFields) < 2 THEN [evt |-> GoPanic, err |-> NoErr]
               ELSE LET t == ParseInt(lineFields[2])
                        se1 == [se EXCEPT !.rawHumanTS = lineFields[1],
                                          !.rawTS = lineFields[2], !.ts = t.val]
                    IN  IF t.err # NoErr THEN [evt |-> se1, err |-> t.err]
                        ELSE Status3Loop(se1, Tail(payload))
          [] lineType = status3HeaderKW ->
               IF Len(lineFields) < 1 THEN [evt |-> GoPanic, err |-> NoErr]
               ELSE Status3Loop([se EXCEPT !.headers =
                                     EnvPut(se.headers, lineFields[1], Tail(lineFields))],
                                Tail(payload))
          [] lineType = status3ClientListKW ->
               Status3Loop([se EXCEPT !.clients = Append(se.clients, lineFields)],
                           Tail(payload))
          [] lineType = status3RoutingTableKW ->
               Status3Loop([se EXCEPT !.routes = Append(se.routes, lineFields)],
                           Tail(payload))
          [] OTHER ->
               Status3Loop([se EXCEPT !.extra = EnvPut(se.extra, lineType, lineFields)],
                           Tail(payload))

NewStatus3Event(payload) == Status3Loop(EmptyStatus3, payload)

\* The nil *Status3Event that LatestStatus3 returns with an error.
NilStatus3 == [variant |-> "nil"]

\* generateStatus3Event: the event sent for what LatestStatus3 returned.
Status3Result(evt, err) ==
    IF evt # NilStatus3 /\ err = NoErr THEN evt ELSE NewInvalidEvent(evt, err)

\* What LatestStatus3 returned to generateStatus3Event; nothing before it returns.
NoRet == [evt |-> NilStatus3, err |-> NoErr]

\* A goroutine started by status3EventGenerator.
NewTask(ch) == [pc |-> "select", done |-> ch, tick |-> FALSE, lines |-> << >>,
                evt |-> NilStatus3, ret |-> NoRet]

\* A faulty SetStatus3Events that makes a new done channel only with a new
\* generator, and keeps the closed one otherwise.
SetStatus3Events_KeepClosed(interval, max) ==
    /\ ~panicked
    /\ nChans < max
    /\ panicked' = (doneGen \in chClosed)
    /\ chClosed' = chClosed \cup {doneGen}
    /\ nChans' = nChans + 1
    /\ doneGen' = IF interval > 0 THEN nChans + 1 ELSE doneGen
    /\ tasks' = IF interval > 0 THEN Append(tasks, NewTask(nChans + 1)) ELSE tasks
    /\ UNCHANGED <<envVars, demuxVars, scanVars, sinkVars, replyVars, cmdVars, nTicks, setCalls>>

\* SetStatus3Events(interval), as one call by one caller; max bounds the calls.
SetStatus3Events(interval, max) ==
    /\ ~panicked
    /\ nChans < max
    /\ panicked' = (doneGen \in chClosed)
    /\ chClosed' = chClosed \cup {doneGen}
    /\ nChans' = nChans + 1
    /\ doneGen' = nChans + 1
    /\ tasks' = IF interval > 0 THEN Append(tasks, NewTask(nChans + 1)) ELSE tasks
    /\ UNCHANGED <<envVars, demuxVars, scanVars, sinkVars, replyVars, cmdVars, nTicks, setCalls>>

\* SetStatus3Events called by several goroutines at once, its first statement:
\* close(c.doneStatus3Gen), of whatever channel the field holds just then.
SetStatus3Close(interval, max) ==
    /\ ~panicked
    /\ nChans + Len(setCalls) < max
    /\ panicked' = (doneGen \in chClosed)
    /\ chClosed' = chClosed \cup {doneGen}
    /\ setCalls' = Append(setCalls, interval)
    /\ UNCHANGED <<envVars, demuxVars, scanVars, sinkVars, replyVars, cmdVars,
                   doneGen, nChans, tasks, nTicks>>

\* The rest of such a call: the new channel, with its generator when the
\* interval is positive, is stored in the field.
SetStatus3Assign(k) ==
    /\ ~panicked
    /\ nChans' = nChans + 1
    /\ doneGen' = nChans + 1
    /\ tasks' = IF setCalls[k] > 0 THEN Append(tasks, NewTask(nChans + 1)) ELSE tasks
    /\ setCalls' = [n \in 1..(Len(setCalls) - 1) |->
                        IF n < k THEN setCalls[n] ELSE setCalls[n + 1]]
    /\ UNCHANGED <<envVars, demuxVars, scanVars, sinkVars, panicked, replyVars, cmdVars,
                   chClosed, nTicks>>

\* The ticker of a live goroutine delivers a tick into ticker.C (capacity one).
PollerTick(t) ==
    /\ ~panicked
    /\ tasks[t].pc # "exit"
    /\ ~tasks[t].tick
    /\ nTicks < MaxTicks
    /\ nTicks' = nTicks + 1
    /\ tasks' = [tasks EXCEPT ![t].tick = TRUE]
    /\ UNCHANGED <<envVars, demuxVars, scanVars, sinkVars, panicked, replyVars, cmdVars,
                   doneGen, nChans, chClosed, setCalls>>

\* A poller that holds back its command while a caller's command is in flight, as
\* it would under a lock shared with the caller.
PollerSend_Locked(t) ==
    /\ ~panicked
    /\ cpc = "idle"
    /\ tasks[t].pc = "select"
    /\ tasks[t].tick
    /\ written' = Append(written, "status 3")
    /\ tasks' = [tasks EXCEPT ![t].tick = FALSE, ![t].pc = "read", ![t].lines = << >>]
    /\ UNCHANGED <<envVars, demuxVars, scanVars, sinkVars, panicked, repIn, cmdVars,
                   doneGen, nChans, chClosed, nTicks, setCalls>>

\* case <-ticker.C, and sendCommand("status 3") succeeds.
PollerSend(t) ==
    /\ ~panicked
    /\ tasks[t].pc = "select"
    /\ tasks[t].tick
    /\ written' = Append(written, "status 3")
    /\ tasks' = [tasks EXCEPT ![t].tick = FALSE, ![t].pc = "read", ![t].lines = << >>]
    /\ UNCHANGED <<envVars, demuxVars, scanVars, sinkVars, panicked, repIn, cmdVars,
                   doneGen, nChans, chClosed, nTicks, setCalls>>

\* case <-ticker.C, and sendCommand("status 3") fails on a broken transport.
PollerSendFail(t) ==
    /\ ~panicked
    /\ tasks[t].pc = "select"
    /\ tasks[t].tick
    /\ srcClosed
    /\ tasks' = [tasks EXCEPT ![t].tick = FALSE, ![t].pc = "push",
                              ![t].ret = [evt |-> NilStatus3, err |-> ErrWrite],
                              ![t].evt = Status3Result(NilStatus3, ErrWrite)]
    /\ UNCHANGED <<envVars, demuxVars, scanVars, sinkVars, panicked, replyVars, cmdVars,
                   doneGen, nChans, chClosed, nTicks, setCalls>>

\* A generator that looks at its done channel inside a tick too.
PollerStop_Preemptive(t) ==
    /\ ~panicked
    /\ tasks[t].pc \in {"select", "read", "push"}
    /\ tasks[t].done \in chClosed
    /\ tasks' = [tasks EXCEPT ![t].pc = "exit"]
    /\ UNCHANGED <<envVars, demuxVars, scanVars, sinkVars, panicked, replyVars, cmdVars,
                   doneGen, nChans, chClosed, nTicks, setCalls>>

\* case <-done: the goroutine returns.
PollerStop(t) ==
    /\ ~panicked
    /\ tasks[t].pc = "select"
    /\ tasks[t].done \in chClosed
    /\ tasks' = [tasks EXCEPT ![t].pc = "exit"]
    /\ UNCHANGED <<envVars, demuxVars, scanVars, sinkVars, panicked, replyVars, cmdVars,
                   doneGen, nChans, chClosed, nTicks, setCalls>>

\* LatestStatus3 takes a line of its payload from rawReplyCh.
PollerRead(t) ==
    /\ ~panicked
    /\ tasks[t].pc = "read"
    /\ dpc = "reply"
    /\ dpc' = "scan"
    /\ repIn' = Append(repIn, [line |-> dline, who |-> "poller", id |-> t])
    /\ tasks' = IF ~PayloadStep(tasks[t].lines, dline).done
                THEN [tasks EXCEPT ![t].lines = PayloadStep(tasks[t].lines, dline).lines]
                ELSE IF NewStatus3Event(tasks[t].lines).evt = GoPanic
                THEN [tasks EXCEPT ![t].pc = "crash"]
                ELSE [tasks EXCEPT ![t].pc = "push", ![t].lines = << >>,
                         ![t].ret = NewStatus3Event(tasks[t].lines),
                         ![t].evt = Status3Result(NewStatus3Event(tasks[t].lines).evt,
                                                  NewStatus3Event(tasks[t].lines).err)]
    /\ panicked' = (tasks'[t].pc = "crash")
    /\ UNCHANGED <<envVars, dline, evClosed, repClosed, rdLog, scanVars, sinkVars,
                   written, cmdVars, doneGen, nChans, chClosed, nTicks, setCalls>>

\* LatestStatus3 finds rawReplyCh closed and returns nil and the error.
PollerReadClosed(t) ==
    /\ ~panicked
    /\ tasks[t].pc = "read"
    /\ repClosed
    /\ tasks' = [tasks EXCEPT ![t].pc = "push", ![t].lines = << >>,
                              ![t].ret = [evt |-> NilStatus3, err |-> ErrClosedPayload],
                              ![t].evt = Status3Result(NilStatus3, ErrClosedPayload)]
    /\ UNCHANGED <<envVars, demuxVars, scanVars, sinkVars, panicked, replyVars, cmdVars,
                   doneGen, nChans, chClosed, nTicks, setCalls>>

\* c.eventSink <- ... in generateStatus3Event; a send on a closed channel panics.
PollerPush(t) ==
    /\ ~panicked
    /\ tasks[t].pc = "push"
    /\ IF sinkClosed
       THEN /\ panicked' = TRUE
            /\ UNCHANGED <<sink, pushed, tasks>>
       ELSE /\ Len(sink) < SinkCap
            /\ sink' = Append(sink, tasks[t].evt)
            /\ pushed' = Append(pushed, [ev |-> tasks[t].evt, by |-> "poller",
                                         at |-> Len(evIn)])
            /\ tasks' = [tasks EXCEPT ![t].pc = "select", ![t].evt = NilStatus3,
                                      ![t].ret = NoRet]
            /\ UNCHANGED panicked
    /\ UNCHANGED <<envVars, demuxVars, scanVars, sinkClosed, nClose, replyVars, cmdVars,
                   doneGen, nChans, chClosed, nTicks, setCalls>>

(***************************************************************************)
(* Specifications.                                                         *)
(***************************************************************************)
\* Demultiplexer and assembler alone: no command is issued, the poller is off.
NextAsm ==
    \/ DemuxReadEvent(AsmLines, MaxAsmLines)
    \/ TransportClose
    \/ DemuxEOF
    \/ ScannerRecv
    \/ ScannerSend
    \/ ScannerClose
    \/ CallerRecv

SpecAsm == Init /\ [][NextAsm]_vars

\* Demultiplexer, assembler and caller on a connection that stays up, the daemon
\* sending event lines of any content.
NextFactory ==
    \/ DemuxReadEvent(FactoryLines, MaxFactoryLines)
    \/ ScannerRecv
    \/ ScannerSend
    \/ CallerRecv

SpecFactory == Init /\ [][NextFactory]_vars

\* The same tasks, each line upgraded by itself: the event factory as a function
\* of one line.
SpecUpgrade ==
    Init /\ [][\/ DemuxReadEvent(UpgradeLines, MaxUpgradeLines)
               \/ ScannerRecv
               \/ ScannerSend
               \/ CallerRecv]_vars

\* The same tasks again, on lines whose bodies have from no field to ten.
SpecSplit ==
    Init /\ [][\/ DemuxReadEvent(SplitLines, MaxSplitLines)
               \/ ScannerRecv
               \/ ScannerSend
               \/ CallerRecv]_vars

\* Demultiplexer and assembler alone, the daemon sending the lines of CLIENT
\* blocks, CONNECT and REAUTH headers, the terminator, ENV lines with one '=' and
\* with two, and HOLD lines between them.
SpecBlock ==
    Init /\ [][\/ DemuxReadEvent(
                      {LineHold, LineConnect, LineReauth, LineEnv, LineEnvEnd,
                       <<asyncMarker>> \o clientEventKW \o <<eventSep>> \o clientEnvMarker
                           \o <<fieldSep, "c", clientEnvKVSep, "d", clientEnvKVSep, "e">>},
                      MaxBlockLines)
               \/ TransportClose
               \/ DemuxEOF
               \/ ScannerRecv
               \/ ScannerSend
               \/ ScannerClose
               \/ CallerRecv]_vars

\* One caller starting and stopping the poller on a connection that stays up,
\* and draining the event channel.
SpecStop ==
    Init /\ [][\/ DemuxReadReply
               \/ CallerRecv
               \/ \E interval \in Intervals : SetStatus3Events(interval, MaxPollSetCalls)
               \/ \E t \in DOMAIN tasks : PollerTick(t)
               \/ \E t \in DOMAIN tasks : PollerSend(t)
               \/ \E t \in DOMAIN tasks : PollerStop(t)
               \/ \E t \in DOMAIN tasks : PollerRead(t)
               \/ \E t \in DOMAIN tasks : PollerPush(t)]_vars

\* Callers that set the poller at the same time, and the generators they start.
SpecSetRace ==
    Init /\ [][\/ \E interval \in Intervals : SetStatus3Close(interval, MaxPollSetCalls)
               \/ \E k \in DOMAIN setCalls : SetStatus3Assign(k)
               \/ \E t \in DOMAIN tasks : PollerTick(t)
               \/ \E t \in DOMAIN tasks : PollerStop(t)]_vars

\* A caller asking for the state beside the poller, on a connection that stays
\* up and carries no notifications; nobody drains the event channel meanwhile.
SpecRace ==
    Init /\ [][\/ DemuxReadReply
               \/ CallerReadPayload
               \/ \E cmd \in PollCmds : CallerCall(cmd, MaxPollCmds)
               \/ SetStatus3Events(1, MaxStatus3Calls)
               \/ \E t \in DOMAIN tasks : PollerTick(t)
               \/ \E t \in DOMAIN tasks : PollerSend(t)
               \/ \E t \in DOMAIN tasks : PollerRead(t)
               \/ \E t \in DOMAIN tasks : PollerPush(t)]_vars

\* What the client's goroutines and the caller's event loop do, whoever drives them.
NextClient ==
    \/ DemuxReadReply
    \/ TransportClose
    \/ DemuxEOF
    \/ ScannerRecv
    \/ ScannerSend
    \/ ScannerClose
    \/ CallerRecv
    \/ CallerReadPayload
    \/ CallerReadPayloadClosed

\* One caller issuing commands one at a time; the poller is off.
NextCmd ==
    \/ NextClient
    \/ DemuxReadEvent(CmdLines, MaxCmdEvents)
    \/ CallerReadResult
    \/ CallerReadResultClosed
    \/ \E cmd \in CallerCmds : CallerCall(cmd, MaxCmds)
    \/ \E cmd \in CallerCmds : CallerCallFail(cmd, MaxCmds)

SpecCmd == Init /\ [][NextCmd]_vars

\* One caller setting the verbosity level again and again; the daemon sends one
\* kind of notification; the poller is off.
NextVerb ==
    \/ DemuxReadReply
    \/ DemuxReadEvent(PollLines, MaxPollEvents)
    \/ TransportClose
    \/ DemuxEOF
    \/ ScannerRecv
    \/ ScannerSend
    \/ ScannerClose
    \/ CallerRecv
    \/ CallerReadResult
    \/ CallerReadResultClosed
    \/ \E level \in VerbLevels : SetVerbosityLevel(level, MaxVerbCalls)

SpecVerb == Init /\ [][NextVerb]_vars

\* One caller that issues a command while notifications keep coming and it is
\* slow to drain its event channel; the connection stays up.
NextStall ==
    \/ DemuxReadReply
    \/ DemuxReadEvent(FairLines, MaxStallEvents)
    \/ ScannerRecv
    \/ ScannerSend
    \/ CallerRecv
    \/ CallerReadResult
    \/ CallerReadPayload
    \/ \E cmd \in CallerCmds : CallerCall(cmd, MaxStallCmds)

SpecStall == Init /\ [][NextStall]_vars

\* The client just constructed, on a connection where the daemon has already sent
\* reply lines of any content.
InitPayload ==
    /\ srcClosed = FALSE
    /\ dpc = "scan"
    /\ dline = << >>
    /\ evClosed = FALSE
    /\ repClosed = FALSE
    /\ spc = "range"
    /\ raw = << >>
    /\ buf = << >>
    /\ bufKW = << >>
    /\ sink = << >>
    /\ sinkClosed = FALSE
    /\ nClose = 0
    /\ panicked = FALSE
    /\ written = << >>
    /\ dReply \in ReplyStreams
    /\ cpc = "idle"
    /\ ccmd = ""
    /\ clines = << >>
    /\ doneGen = 0
    /\ nChans = 0
    /\ chClosed = {}
    /\ tasks = << >>
    /\ nTicks = 0
    /\ setCalls = << >>
    /\ rdLog = << >>
    /\ evIn = << >>
    /\ repIn = << >>
    /\ pushed = << >>
    /\ replies = << >>
    /\ results = << >>

\* One caller of LatestState reading whatever lines the reply lane brings.
NextPayload ==
    \/ DemuxReadReply
    \/ TransportClose
    \/ DemuxEOF
    \/ ScannerClose
    \/ CallerReadPayload
    \/ CallerReadPayloadClosed
    \/ CallerCall("state", MaxPayloadCalls)
    \/ CallerCallFail("state", MaxPayloadCalls)

SpecPayload == InitPayload /\ [][NextPayload]_vars

\* A step of a goroutine of the client, of a command call in progress, or of the
\* caller draining its event channel.
ClientStep ==
    \/ DemuxEOF
    \/ ScannerRecv
    \/ ScannerSend
    \/ ScannerClose
    \/ CallerRecv
    \/ CallerReadResult
    \/ CallerReadResultClosed
    \/ CallerReadPayload
    \/ CallerReadPayloadClosed

\* The Go scheduler runs a runnable goroutine, and the caller keeps draining its
\* event channel and reading in its command call: while one of them can take a
\* step, a step is taken in the end.
FairCmd == WF_vars(ClientStep)

\* One caller and the poller off, as in SpecCmd, for the runs to the end.
NextCmdFair ==
    \/ NextClient
    \/ DemuxReadEvent(FairLines, MaxFairEvents)
    \/ CallerReadResult
    \/ CallerReadResultClosed
    \/ \E cmd \in CallerCmds : CallerCall(cmd, MaxFairCmds)
    \/ \E cmd \in CallerCmds : CallerCallFail(cmd, MaxFairCmds)

SpecCmdFair == Init /\ [][NextCmdFair]_vars /\ FairCmd

\* The whole client: the poller, and a caller issuing commands beside it.
Next ==
    \/ NextClient
    \/ DemuxReadEvent(PollLines, MaxPollEvents)
    \/ \E cmd \in PollCmds : CallerCall(cmd, MaxPollCmds)
    \/ \E cmd \in PollCmds : CallerCallFail(cmd, MaxPollCmds)
    \/ \E interval \in Intervals : SetStatus3Events(interval, MaxSetCalls)
    \/ \E t \in DOMAIN tasks : PollerTick(t)
    \/ \E t \in DOMAIN tasks : PollerSend(t)
    \/ \E t \in DOMAIN tasks : PollerSendFail(t)
    \/ \E t \in DOMAIN tasks : PollerStop(t)
    \/ \E t \in DOMAIN tasks : PollerRead(t)
    \/ \E t \in DOMAIN tasks : PollerReadClosed(t)
    \/ \E t \in DOMAIN tasks : PollerPush(t)

Spec == Init /\ [][Next]_vars

\* The poller as the only user of the command channel: the caller switches it on
\* and off and drains its event channel; the daemon sends no notification.
NextPoll ==
    \/ DemuxReadReply
    \/ TransportClose
    \/ DemuxEOF
    \/ ScannerClose
    \/ CallerRecv
    \/ \E interval \in Intervals : SetStatus3Events(interval, MaxPollSetCalls)
    \/ \E t \in DOMAIN tasks : PollerTick(t)
    \/ \E t \in DOMAIN tasks : PollerSend(t)
    \/ \E t \in DOMAIN tasks : PollerSendFail(t)
    \/ \E t \in DOMAIN tasks : PollerStop(t)
    \/ \E t \in DOMAIN tasks : PollerRead(t)
    \/ \E t \in DOMAIN tasks : PollerReadClosed(t)
    \/ \E t \in DOMAIN tasks : PollerPush(t)

SpecPoll == Init /\ [][NextPoll]_vars

\* The client just constructed, on a connection where the daemon's reply to the
\* command 'status 3' is made of lines of any content.
InitStatus3 ==
    /\ srcClosed = FALSE
    /\ dpc = "scan"
    /\ dline = << >>
    /\ evClosed = FALSE
    /\ repClosed = FALSE
    /\ spc = "range"
    /\ raw = << >>
    /\ buf = << >>
    /\ bufKW = << >>
    /\ sink = << >>
    /\ sinkClosed = FALSE
    /\ nClose = 0
    /\ panicked = FALSE
    /\ written = << >>
    /\ dReply \in Status3Streams
    /\ cpc = "idle"
    /\ ccmd = ""
    /\ clines = << >>
    /\ doneGen = 0
    /\ nChans = 0
    /\ chClosed = {}
    /\ tasks = << >>
    /\ nTicks = 0
    /\ setCalls = << >>
    /\ rdLog = << >>
    /\ evIn = << >>
    /\ repIn = << >>
    /\ pushed = << >>
    /\ replies = << >>
    /\ results = << >>

\* The poller switched on, reading such a reply; the connection stays up.
NextStatus3 ==
    \/ DemuxReadReply
    \/ CallerRecv
    \/ SetStatus3Events(1, MaxStatus3Calls)
    \/ \E t \in DOMAIN tasks : PollerTick(t)
    \/ \E t \in DOMAIN tasks : PollerSend(t)
    \/ \E t \in DOMAIN tasks : PollerRead(t)
    \/ \E t \in DOMAIN tasks : PollerPush(t)

SpecStatus3 == InitStatus3 /\ [][NextStatus3]_vars

(***************************************************************************)
(* The assembler, read off its history: evIn[i] is the i-th line taken     *)
(* from the event lane with the buffer as it was then, pushed[n] the n-th  *)
(* event sent on the delivery lane with the line being processed then.     *)
(***************************************************************************)
\* The i-th line has been processed to the end of the loop body.
Processed(i) == i < Len(evIn) \/ (i = Len(evIn) /\ spc \in {"range", "done"})

\* The sends made while the i-th line was being processed.
PushedAt(i) == {n \in 1..Len(pushed) : pushed[n].at = i}

\* The buffer after the i-th line has been processed.
BufAfter(i) == IF i < Len(evIn) THEN evIn[i + 1].buf ELSE buf
BufKWAfter(i) == IF i < Len(evIn) THEN evIn[i + 1].bufKW ELSE bufKW

IsSingleLine(l) == splitEvent(l).endMarker = emSingleLine
IsClientHeader(l) ==
    \E t \in {CEConnect, CEReauth, CEEstablished, CEDisconnect} :
        HasPrefix(l, clientEventKW \o <<eventSep>> \o t)
IsClientEnv(l) ==
    /\ HasPrefix(l, clientEventKW \o <<eventSep>> \o clientEnvMarker \o <<fieldSep>>)
    /\ l # emClient

\* Lines i..j are a header taken with the buffer empty, then continuation lines.
OpenBlock(i, j) ==
    /\ i <= j
    /\ evIn[i].buf = << >>
    /\ evIn[i].bufKW = << >>
    /\ IsClientHeader(evIn[i].line)
    /\ \A m \in (i + 1)..j : IsClientEnv(evIn[m].line)

\* The bodies of lines i..j, in arrival order.
Bodies(i, j) == [m \in 1..(j - i + 1) |-> splitEvent(evIn[i + m - 1].line).body]

\* C2: a CLIENT header taken when Idle, k >= 0 ENV lines and the terminator: nothing
\* is pushed while the block is open, exactly one event is pushed when the terminator
\* arrives, built from the header body and the k continuation bodies in arrival
\* order, and the assembler is Idle afterwards.
C2_BlockAssembled ==
    \A i \in 1..Len(evIn) : \A j \in i..Len(evIn) :
        OpenBlock(i, j) =>
            /\ \A m \in i..j : evIn[m].npushed = evIn[i].npushed
            /\ \A m \in i..j : Processed(m) => PushedAt(m) = {}
            /\ (j < Len(evIn) /\ evIn[j + 1].line = emClient) =>
                   /\ evIn[j + 1].npushed = evIn[i].npushed
                   /\ Processed(j + 1) =>
                          /\ PushedAt(j + 1) = {evIn[i].npushed + 1}
                          /\ pushed[evIn[i].npushed + 1].ev
                                 = upgradeMultilineEvent(clientEventKW, Bodies(i, j))
                          /\ BufAfter(j + 1) = << >>
                          /\ BufKWAfter(j + 1) = << >>

\* A block with a continuation line has been closed by its terminator.
C2_Witness ==
    \E i \in 1..Len(evIn) : \E j \in (i + 1)..Len(evIn) :
        /\ OpenBlock(i, j)
        /\ j < Len(evIn)
        /\ evIn[j + 1].line = emClient
        /\ Processed(j + 1)
        /\ pushed[evIn[i].npushed + 1].ev.variant = "Client"

\* C5: when the delivery lane is closed no line is left in the buffer: a buffer open
\* at the closing of the event lane has been pushed as one event before.
C5_FlushedAtTeardown ==
    sinkClosed =>
        /\ buf = << >>
        /\ bufKW = << >>
        /\ \A i \in 1..Len(evIn) : \A j \in i..Len(evIn) :
               (OpenBlock(i, j) /\ j = Len(evIn)) =>
                   \E n \in 1..Len(pushed) :
                       pushed[n].ev = upgradeMultilineEvent(clientEventKW, Bodies(i, j))

\* C8: a single-line event line taken while a buffer is open: the buffer is pushed
\* first as its own event, the single-line event second, and the assembler is Idle
\* afterwards.
C8_BufferFirst ==
    \A i \in 1..Len(evIn) :
        (IsSingleLine(evIn[i].line) /\ evIn[i].buf # << >> /\ Processed(i)) =>
            /\ PushedAt(i) = {evIn[i].npushed + 1, evIn[i].npushed + 2}
            /\ pushed[evIn[i].npushed + 1].ev
                   = upgradeMultilineEvent(evIn[i].bufKW, evIn[i].buf)
            /\ pushed[evIn[i].npushed + 2].ev
                   = upgradeEvent(splitEvent(evIn[i].line).keyword,
                                  splitEvent(evIn[i].line).body)
            /\ BufAfter(i) = << >>
            /\ BufKWAfter(i) = << >>

\* The position of the line that completed the n-th event pushed: its own line for
\* a single-line event, the terminator for a terminated block, and for a buffer
\* flushed without a terminator the last line put into it, the line before the one
\* that made the assembler flush.
CompletedAt(n) ==
    IF pushed[n].by \in {"anomaly", "flushMismatch"}
    THEN pushed[n].at - 1
    ELSE pushed[n].at

\* C9: the events are pushed in the order in which the lines that complete them were
\* taken from the event lane, and the caller's channel keeps that order: a
\* single-line event is pushed at its line, a multi-line event at its terminator
\* line and at no line before it.
C9_CompletionOrder ==
    /\ \A n \in 1..Len(pushed) : \A m \in n..Len(pushed) :
           CompletedAt(n) <= CompletedAt(m)
    /\ Len(sink) <= Len(pushed)
    /\ sink = [n \in 1..Len(sink) |-> pushed[Len(pushed) - Len(sink) + n].ev]
    /\ \A i \in 1..Len(evIn) : Processed(i) =>
           /\ IsSingleLine(evIn[i].line) =>
                  \E n \in PushedAt(i) :
                      /\ pushed[n].by = "single"
                      /\ pushed[n].ev = upgradeEvent(splitEvent(evIn[i].line).keyword,
                                                     splitEvent(evIn[i].line).body)
           /\ evIn[i].line = emClient =>
                  /\ Cardinality(PushedAt(i)) = 1
                  /\ \A n \in PushedAt(i) :
                         /\ pushed[n].by = "end"
                         /\ pushed[n].ev = upgradeMultilineEvent(evIn[i].bufKW, evIn[i].buf)
           /\ (~IsSingleLine(evIn[i].line) /\ evIn[i].line # emClient
                   /\ evIn[i].bufKW \in {<< >>, splitEvent(evIn[i].line).keyword}) =>
                  PushedAt(i) = {}

(***************************************************************************)
(* The demultiplexer and the command channel, read off their histories.    *)
(***************************************************************************)
\* The lines Demultiplex has read and handed over to a lane.
Handed ==
    SubSeq(rdLog, 1, Len(rdLog) - (IF dpc \in {"event", "reply"} THEN 1 ELSE 0))

IsReplyLine(l) == ~IsEventLine(l)

\* The command calls that wrote their command, finished or not.
CallsSent ==
    Cardinality({k \in 1..Len(results) : results[k].sent})
        + (IF cpc = "idle" THEN 0 ELSE 1)

\* C1: every line read goes to exactly one lane: to the event lane without its
\* marker iff it begins with the marker, otherwise to the reply lane as it is; and
\* the commands the daemon received are those the command calls wrote.
C1_DemuxRouting ==
    LET ev == SelectSeq(Handed, IsEventLine)
        rp == SelectSeq(Handed, IsReplyLine)
    IN  /\ [i \in 1..Len(evIn) |-> evIn[i].line] = [i \in 1..Len(ev) |-> Tail(ev[i])]
        /\ [i \in 1..Len(repIn) |-> repIn[i].line] = rp
        /\ dpc = "event" =>
               /\ IsEventLine(rdLog[Len(rdLog)])
               /\ dline = Tail(rdLog[Len(rdLog)])
        /\ dpc = "reply" =>
               /\ IsReplyLine(rdLog[Len(rdLog)])
               /\ dline = rdLog[Len(rdLog)]
        /\ Len(written) + Len(replies) = CallsSent

\* Lines have reached both lanes, and one more is in Demultiplex's hand.
C1_Witness ==
    /\ Len(evIn) >= 1
    /\ Len(repIn) >= 1
    /\ dpc \in {"event", "reply"}
    /\ Len(Handed) = Len(evIn) + Len(repIn)

\* The results of the calls that wrote their command.
SentResults == SelectSeq(results, LAMBDA r : r.sent)
IsClosedErr(e) == e \in {ErrClosedResult, ErrClosedPayload}

\* C3: one caller, one command at a time, the poller off: the call that wrote the
\* k-th command returns the daemon's k-th reply, however event lines are interleaved.
C3_ReplyFifo ==
    \A k \in 1..Len(SentResults) :
        ~IsClosedErr(SentResults[k].err) =>
            /\ k <= Len(replies)
            /\ IF IsPayloadCmd(SentResults[k].cmd)
               THEN /\ SentResults[k].lines = SubSeq(replies[k], 1, Len(replies[k]) - 1)
                    /\ SentResults[k].err = NoErr
                    /\ SentResults[k].ret.evt.variant = "State"
                    /\ SentResults[k].ret.evt.body = replies[k][1]
               ELSE /\ SentResults[k].result = readCommandResult(replies[k][1]).result
                    /\ SentResults[k].err = readCommandResult(replies[k][1]).err

\* Two commands have been answered, the second with a payload, with event lines
\* read in between.
C3_Witness ==
    /\ Len(SentResults) = 2
    /\ \A k \in 1..2 : ~IsClosedErr(SentResults[k].err)
    /\ SentResults[2].cmd = "state"
    /\ SentResults[1].err = NoErr
    /\ \E i \in 2..Len(rdLog) : IsEventLine(rdLog[i]) /\ IsReplyLine(rdLog[i - 1])

\* The lines the k-th call took from the reply lane.
LinesOf(k) ==
    LET mine == SelectSeq(repIn, LAMBDA e : e.who = "caller" /\ e.id = k)
    IN  [i \in 1..Len(mine) |-> mine[i].line]

\* What the calls that met the closed reply lane returned.
ClosedReturns ==
    \A k \in 1..Len(results) :
        IsClosedErr(results[k].err) =>
            IF IsPayloadCmd(results[k].cmd)
            THEN /\ results[k].err = ErrClosedPayload
                 /\ results[k].lines = LinesOf(k)
            ELSE /\ results[k].err = ErrClosedResult
                 /\ results[k].result = << >>
                 /\ LinesOf(k) = << >>

C7_TeardownCascade ==
    /\ [](dpc = "done" => (evClosed /\ repClosed))
    /\ [](evClosed <=> repClosed)
    /\ srcClosed ~> (evClosed /\ repClosed /\ sinkClosed)

\* The delivery lane has been closed after the source ended and the caller has
\* drained more events than its channel holds, and a command call met the closure.
C7_Witness ==
    /\ srcClosed
    /\ sinkClosed
    /\ evClosed
    /\ repClosed
    /\ Len(pushed) > SinkCap
    /\ sink = << >>
    /\ \E k \in 1..Len(results) : IsClosedErr(results[k].err)

(***************************************************************************)
(* The status poller beside the assembler.                                 *)
(***************************************************************************)
\* A goroutine is at a send on the caller's channel after its close.
SendOnClosed ==
    /\ panicked
    /\ sinkClosed
    /\ \E t \in DOMAIN tasks : tasks[t].pc = "push"

\* C4: the delivery lane is closed exactly once, and no task pushes an event onto
\* it after it has been closed, the poller running or not.
C4_ClosedOnceNoPushAfter ==
    /\ nClose <= 1
    /\ sinkClosed <=> nClose = 1
    /\ ~SendOnClosed

\* C10: once SetStatus3Events has returned, having closed the stop channel of the
\* task started before, that task issues no further 'status 3' command.
C10_StoppedTaskSilent ==
    [][\A t \in DOMAIN tasks :
           (tasks[t].done \in chClosed /\ tasks[t].pc = "select")
               => tasks'[t].pc # "read"]_vars

\* Every generator started so far has had its done channel closed: the last call
\* of SetStatus3Events that returned had an interval of zero or less.
GeneratorsStopped ==
    /\ nChans > 0
    /\ \A t \in DOMAIN tasks : tasks[t].done \in chClosed

\* The step writes the command 'status 3' to the transport.
WritesStatus3 ==
    /\ Len(written') = Len(written) + 1
    /\ written'[Len(written')] = "status 3"

\* The step sends an event of a generator on the caller's channel.
PollerPushes ==
    /\ Len(pushed') = Len(pushed) + 1
    /\ pushed'[Len(pushed')].by = "poller"

\* C11: after SetStatus3Events has returned from a call with interval zero, and
\* until it is called with a positive interval, no 'status 3' command is written
\* and no event of the poller is pushed onto the delivery lane.
C11_SilentAfterZero ==
    [][GeneratorsStopped => (~WritesStatus3 /\ ~PollerPushes)]_vars

\* The generators whose done channel is still open.
LiveTasks == {t \in DOMAIN tasks : tasks[t].done \notin chClosed}

\* C12: whatever intervals SetStatus3Events is called with, one call after the
\* other, the done channel a call is about to close is open (no call panics on a
\* closed channel), and after each call the done channel of every generator an
\* earlier call started is closed: at most one generator, the one of the last
\* call, has not been told to stop.
C12_StopIdempotent ==
    /\ doneGen \notin chClosed
    /\ chClosed = 0..(nChans - 1)
    /\ \A t \in LiveTasks : tasks[t].done = doneGen
    /\ Cardinality(LiveTasks) <= 1

\* Three calls: a stop before any start, a start, and a start over it.
C12_Witness ==
    /\ nChans = 3
    /\ Len(tasks) = 2
    /\ tasks[1].done = 2
    /\ LiveTasks = {2}
    /\ ~panicked

\* The generator t is inside generateStatus3Event.
InTick(t) == tasks[t].pc \in {"read", "push"}

\* The step ends the tick of generator t: generateStatus3Event returns, or the
\* goroutine panics inside it.
TickEnds(t) ==
    /\ InTick(t)
    /\ \/ ~InTick(t)'
       \/ tasks[t].pc = "push" /\ sinkClosed /\ panicked'

\* The event the tick of generator t owes the caller for what LatestStatus3
\* returned: the snapshot, or an Invalid event with the error.
OwedEvent(t, ev) ==
    IF tasks[t].pc = "push" /\ tasks[t].ret.err = NoErr
    THEN ev = tasks[t].ret.evt /\ ev.variant = "Status3"
    ELSE ev.variant = "Invalid" /\ ev.firstError = tasks[t].ret.err
                                /\ ev.firstError # NoErr

\* C13: a tick of a generator ends with one event pushed onto the delivery lane,
\* the snapshot parsed from the reply when the command and the parse succeeded,
\* and an Invalid event with the error otherwise.
C13_OneEventPerTick ==
    [][\A t \in DOMAIN tasks :
           TickEnds(t) => (PollerPushes /\ OwedEvent(t, pushed'[Len(pushed')].ev))]_vars

\* C14: every Invalid event pushed onto the delivery lane, by the assembler or by
\* a generator, carries an origin event that is not nil and an error that is not
\* nil.
C14_InvalidHasOrigin ==
    \A i \in 1..Len(pushed) :
        pushed[i].ev.variant = "Invalid"
            => (pushed[i].ev.orig # NilStatus3 /\ pushed[i].ev.firstError # NoErr)

(***************************************************************************)
(* Backpressure from the delivery lane to the command channel.             *)
(***************************************************************************)
\* The assembler is blocked at a send on the full eventSink.
AssemblerBlocked ==
    /\ spc \in {"sendSingle", "flushAnomaly", "flushEnd", "flushMismatch", "sendMismatch"}
    /\ Len(sink) = SinkCap

\* Demultiplex has read an event line that the assembler has not taken.
EventLineWaits == CountEventLines(rdLog) > Len(evIn)

\* C15: while the assembler is blocked pushing onto the full delivery lane and an
\* event line waits behind it, no reply line is delivered to a command call; the
\* demultiplexer holds that event line and reads nothing after it.
C15_Backpressure ==
    [][(AssemblerBlocked /\ EventLineWaits)
           => (repIn' = repIn /\ rdLog' = rdLog /\ dpc = "event")]_vars

\* The stall with a command call waiting for a reply the daemon sends after the
\* event line.
C15_Witness ==
    /\ AssemblerBlocked
    /\ EventLineWaits
    /\ dpc = "event"
    /\ cpc \in {"readResult", "readPayload"}
    /\ written # << >>
    /\ ~srcClosed

(***************************************************************************)
(* Commands that test their argument before sending.                       *)
(***************************************************************************)
\* The level a call of SetVerbosityLevel was made with.
LevelOf(cmd) == CHOOSE level \in VerbLevels : cmd = VerbCmd(level)

\* The calls of SetVerbosityLevel that have returned.
VerbResults == {k \in 1..Len(results) : IsVerbCmd(results[k].cmd)}

\* The call was refused before any write.
RejectedLocally(k) ==
    /\ ~results[k].sent
    /\ results[k].err = ErrBadVerbosity(LevelOf(results[k].cmd))

\* C16: SetVerbosityLevel(level) goes on to send 'verb <level>' exactly when
\* 0 <= level <= 15, and returns its own error without a write for any other level.
C16_VerbositySentIffInRange ==
    \A k \in VerbResults :
        RejectedLocally(k) <=> ~(0 <= LevelOf(results[k].cmd) /\ LevelOf(results[k].cmd) <= 15)

(***************************************************************************)
(* Reading replies.                                                        *)
(***************************************************************************)
\* The calls of a command with a one-line reply that read a line.
SimpleReads ==
    {k \in 1..Len(results) :
        /\ ~IsPayloadCmd(results[k].cmd)
        /\ results[k].sent
        /\ results[k].err # ErrClosedResult}

\* The text of a line after its first n characters.
After(line, n) == [i \in 1..(Len(line) - n) |-> line[i + n]]
StartsWith(line, p) == Len(line) >= Len(p) /\ \A i \in 1..Len(p) : line[i] = p[i]

\* C17: a simple-reply read takes one line from the reply lane; it returns the
\* text after 'SUCCESS: ' and no error for a line with that prefix, nothing and an
\* OVpnError with the text after 'ERROR: ' for a line with that prefix, and nothing
\* and the error 'malformed result message' for any other line.
C17_SimpleReply ==
    \A k \in SimpleReads :
        /\ Len(LinesOf(k)) = 1
        /\ LET line == LinesOf(k)[1]
           IN  CASE StartsWith(line, <<"S", "U", "C", "C", "E", "S", "S", ":", " ">>) ->
                      /\ results[k].result = After(line, 9)
                      /\ results[k].err = NoErr
                 [] StartsWith(line, <<"E", "R", "R", "O", "R", ":", " ">>) ->
                      /\ results[k].result = << >>
                      /\ results[k].err = [kind |-> "OVpnError", msg |-> After(line, 7)]
                 [] OTHER ->
                      /\ results[k].result = << >>
                      /\ results[k].err.kind = "errorString"
                      /\ results[k].err.msg = "malformed result message"

\* Two reads, each of one of the three kinds of line, one of them malformed.
C17_Witness ==
    /\ Cardinality(SimpleReads) = 2
    /\ \E k \in SimpleReads : results[k].err = ErrMalformedResult
    /\ \E k \in SimpleReads : results[k].err.kind = "OVpnError" \/ results[k].err = NoErr

\* The calls whose multi-line reply read returned without an error.
PayloadReads ==
    {k \in 1..Len(results) :
        /\ IsPayloadCmd(results[k].cmd)
        /\ results[k].sent
        /\ results[k].err \notin {ErrClosedPayload, ErrWrite}}

IsEnd(line) == Len(line) = 3 /\ line[1] = "E" /\ line[2] = "N" /\ line[3] = "D"

\* C18: a multi-line reply read returns, in the order of their arrival, the lines
\* it took from the reply lane before the first line equal to 'END', without that
\* line, and takes no line after it.
C18_PayloadUpToEnd ==
    \A k \in PayloadReads :
        LET got == LinesOf(k)
        IN  /\ Len(got) >= 1
            /\ IsEnd(got[Len(got)])
            /\ \A i \in 1..(Len(got) - 1) : ~IsEnd(got[i])
            /\ results[k].lines = [i \in 1..(Len(got) - 1) |-> got[i]]

\* A read has returned two lines, the second of them 'END ' with a space, and the
\* line the daemon sent behind the terminator is still with the demultiplexer.
C18_Witness ==
    /\ Len(results) = 1
    /\ 1 \in PayloadReads
    /\ results[1].lines = << <<"a">>, <<"E", "N", "D", " ">> >>
    /\ cpc = "idle"
    /\ Len(repIn) = 3
    /\ Len(rdLog) = 4
    /\ dpc = "reply"

(***************************************************************************)
(* The event factory on lines of any content.                              *)
(***************************************************************************)
\* A value of one of the event types, other than Invalid.
IsPlainEvent(e) ==
    e.variant \in {"Malformed", "Simple", "Unknown", "Hold", "Log", "State", "Echo",
                   "ByteCount", "ByteCountClient", "Client"}

\* One event that is not nil, and no panic: a plain event, or an Invalid event
\* around one with its error.
IsOneEvent(e) ==
    \/ IsPlainEvent(e)
    \/ /\ e.variant = "Invalid"
       /\ IsPlainEvent(e.orig)
       /\ e.firstError # NoErr

\* The sends of the assembler that came from upgradeMultilineEvent.
MultilinePushes ==
    {i \in 1..Len(pushed) : pushed[i].by \in {"end", "anomaly", "flushMismatch"}}

\* C19: for every line the assembler takes from the event lane, splitEvent and
\* then upgradeEvent give one event and no panic; and so does
\* upgradeMultilineEvent on every keyword and list of lines the assembler holds
\* when it flushes, and on every pair it has flushed.
C19_FactoryTotal ==
    /\ \A i \in 1..Len(evIn) :
           IsOneEvent(upgradeEvent(splitEvent(evIn[i].line).keyword,
                                   splitEvent(evIn[i].line).body))
    /\ spc \in {"flushEnd", "flushAnomaly", "flushMismatch"}
           => IsOneEvent(upgradeMultilineEvent(bufKW, buf))
    /\ \A i \in 1..Len(pushed) : IsOneEvent(pushed[i].ev)

\* Two lines have given two events: an end marker that closed no block was
\* flushed with an empty buffer, and a line that does not parse was upgraded to
\* an Invalid event.
C19_Witness ==
    /\ Len(pushed) = 2
    /\ \E i \in MultilinePushes :
           /\ evIn[pushed[i].at].buf = << >>
           /\ evIn[pushed[i].at].bufKW = << >>
           /\ pushed[i].ev.variant = "Malformed"
    /\ \E i \in 1..2 : pushed[i].by = "single" /\ pushed[i].ev.variant = "Invalid"

(***************************************************************************)
(* The snapshot parser on replies of any content.                          *)
(***************************************************************************)
\* C20: whatever lines the reply to 'status 3' is made of, a TIME or HEADER line
\* with fields missing among them, parsing it gives a snapshot or an error: no
\* generator panics in NewStatus3Event and the client goes on.
C20_ParseNeverCrashes ==
    /\ ~panicked
    /\ \A t \in DOMAIN tasks : tasks[t].pc # "crash"

(***************************************************************************)
(* The event factory, line by line.                                        *)
(***************************************************************************)
\* The sends of the assembler that came from upgradeEvent.
SinglePushes == {i \in 1..Len(pushed) : pushed[i].by \in {"single", "sendMismatch"}}

\* The line, without its marker, that the i-th send upgraded.
LineOf(i) == evIn[pushed[i].at].line

\* Where the first ':' of a line stands, 0 if there is none; the text before it
\* and the text after it.
FirstAt(s, c) ==
    IF \E n \in 1..Len(s) : s[n] = c
    THEN CHOOSE n \in 1..Len(s) : s[n] = c /\ \A m \in 1..(n - 1) : s[m] # c
    ELSE 0
SepAt(line) == FirstAt(line, ":")
KeyOf(line) == [n \in 1..(SepAt(line) - 1) |-> line[n]]
BodyOf(line) == [n \in 1..(Len(line) - SepAt(line)) |-> line[n + SepAt(line)]]

\* The event itself, or the event an Invalid event wraps.
Origin(e) == IF e.variant = "Invalid" THEN e.orig ELSE e

\* The numeric fields of a BYTECOUNT and of a BYTECOUNT_CLI body, in field order,
\* and what the event holds for each.
CountFields(e) ==
    IF e.variant = "ByteCount"
    THEN stringsSplitNK(e.body, fieldSep, 2, 2)
    ELSE stringsSplitNK(e.body, fieldSep, 3, 3)
CountValues(e) ==
    IF e.variant = "ByteCount"
    THEN <<e.bytesIn, e.bytesOut>>
    ELSE <<e.cid, e.bytesIn, e.bytesOut>>

\* The byte-count events upgraded so far.
CountPushes ==
    {i \in SinglePushes : Origin(pushed[i].ev).variant \in {"ByteCount", "ByteCountClient"}}

\* The first field of a list that does not parse, 0 if all do.
FirstBad(fields) ==
    IF \E n \in 1..Len(fields) : ParseInt(fields[n]).err # NoErr
    THEN CHOOSE n \in 1..Len(fields) :
             /\ ParseInt(fields[n]).err # NoErr
             /\ \A m \in 1..(n - 1) : ParseInt(fields[m]).err = NoErr
    ELSE 0

\* C21: when a field of a byte-count body does not parse, every other field that
\* does parse is filled in, those after the failing one too, and the Invalid
\* event carries the first error only.
C21_FillsOtherFields ==
    \A i \in CountPushes :
        LET e == Origin(pushed[i].ev)
            fields == CountFields(e)
        IN  /\ \A n \in 1..Len(fields) :
                   ParseInt(fields[n]).err = NoErr
                       => CountValues(e)[n] = ParseInt(fields[n]).val
            /\ FirstBad(fields) # 0
                   => /\ pushed[i].ev.variant = "Invalid"
                      /\ pushed[i].ev.firstError = ParseInt(fields[FirstBad(fields)]).err

\* The text of a body before its first ',', the whole body if it has none.
HeadField(body) ==
    IF FirstAt(body, ",") = 0 THEN body
    ELSE [n \in 1..(FirstAt(body, ",") - 1) |-> body[n]]

\* The keywords with a required numeric field, the variant each stands for, and
\* the numeric fields of a line in field order.  An ECHO body without ',' has no
\* timestamp field at all.
NumericKWs == {logEventKW, stateEventKW, echoEventKW, byteCountEventKW, byteCountCliEventKW}
VariantOfKW(k) ==
    CASE k = logEventKW -> "Log"
      [] k = stateEventKW -> "State"
      [] k = echoEventKW -> "Echo"
      [] k = byteCountEventKW -> "ByteCount"
      [] k = byteCountCliEventKW -> "ByteCountClient"
NumericFields(line) ==
    CASE KeyOf(line) \in {logEventKW, stateEventKW} -> <<HeadField(BodyOf(line))>>
      [] KeyOf(line) = echoEventKW ->
             IF FirstAt(BodyOf(line), ",") = 0 THEN << >> ELSE <<HeadField(BodyOf(line))>>
      [] KeyOf(line) = byteCountEventKW -> stringsSplitNK(BodyOf(line), fieldSep, 2, 2)
      [] KeyOf(line) = byteCountCliEventKW -> stringsSplitNK(BodyOf(line), fieldSep, 3, 3)

\* The lines upgraded so far whose keyword has a numeric field that fails.
NumericFailures ==
    {i \in SinglePushes :
        /\ SepAt(LineOf(i)) # 0
        /\ KeyOf(LineOf(i)) \in NumericKWs
        /\ FirstBad(NumericFields(LineOf(i))) # 0}

\* C22: for LOG, STATE, ECHO, BYTECOUNT and BYTECOUNT_CLI, a numeric field that
\* is no base-10 64-bit integer gives an Invalid event whose origin is the
\* variant of the keyword and whose error is the parse error of the first
\* failing numeric field.
C22_NumericFailureIsInvalid ==
    \A i \in NumericFailures :
        LET fields == NumericFields(LineOf(i))
        IN  /\ pushed[i].ev.variant = "Invalid"
            /\ pushed[i].ev.orig.variant = VariantOfKW(KeyOf(LineOf(i)))
            /\ pushed[i].ev.firstError = ParseInt(fields[FirstBad(fields)]).err

\* A BYTECOUNT_CLI line whose second field fails has been upgraded.
C22_Witness ==
    \E i \in NumericFailures :
        /\ KeyOf(LineOf(i)) = byteCountCliEventKW
        /\ FirstBad(NumericFields(LineOf(i))) = 2
        /\ pushed[i].ev.variant = "Invalid"

BarePushes == {i \in SinglePushes : SepAt(LineOf(i)) = 0}

\* The characters a quoted string escapes, and how many of them a line has
\* before its n-th character.
Escaped(c) == c \in {"\"", "\\"}
EscapedBefore(line, n) == Cardinality({m \in 1..(n - 1) : Escaped(line[m])})

\* q is the line between double quotes, a backslash before each escaped character.
IsQuoted(q, line) ==
    /\ Len(q) = Len(line) + EscapedBefore(line, Len(line) + 1) + 2
    /\ q[1] = "\"" /\ q[Len(q)] = "\""
    /\ \A n \in 1..Len(line) :
           LET at == n + EscapedBefore(line, n) + 1
           IN  IF Escaped(line[n])
               THEN q[at] = "\\" /\ q[at + 1] = line[n]
               ELSE q[at] = line[n]

\* C24: a line without ':' (the empty line too) gives a Malformed event whose
\* Raw() is the line and whose String() is 'Malformed Event ' and the quoted line.
C24_BareLineIsMalformed ==
    \A i \in BarePushes :
        LET e == pushed[i].ev
            str == String(e)
        IN  /\ e.variant = "Malformed"
            /\ Raw(e) = LineOf(i)
            /\ Len(str) >= 16
            /\ Text(SubSeq(str, 1, 16)) = "Malformed Event "
            /\ IsQuoted(SubSeq(str, 17, Len(str)), LineOf(i))

\* A line with a double quote in it, and no ':', has been upgraded.
C24_Witness ==
    \E i \in BarePushes :
        /\ \E n \in 1..Len(LineOf(i)) : LineOf(i)[n] = "\""
        /\ pushed[i].ev.variant = "Malformed"

\* The keywords the factory knows.
SimpleKWs == {infoEventKW, needOkEventKW, needStrEventKW, passwordEventKW, fatalEventKW}
KnownKWs == NumericKWs \cup SimpleKWs \cup {holdEventKW, clientEventKW}

\* The lines upgraded so far whose keyword is not empty and not known.
UnknownPushes ==
    {i \in SinglePushes :
        /\ SepAt(LineOf(i)) > 1
        /\ KeyOf(LineOf(i)) \notin KnownKWs}

\* C25: a line 'K:B' whose keyword K is not empty and not known gives an Unknown
\* event with Type() K and Body() B, all that follows the first ':' as it is, so
\* that Raw() is the line again.
C25_UnknownKeepsLine ==
    \A i \in UnknownPushes :
        LET e == pushed[i].ev
        IN  /\ e.variant = "Unknown"
            /\ e.keyword = KeyOf(LineOf(i))
            /\ e.body = BodyOf(LineOf(i))
            /\ Raw(e) = LineOf(i)

\* An unknown keyword whose body has a further ':' and a ',' has been upgraded.
C25_Witness ==
    \E i \in UnknownPushes :
        /\ FirstAt(BodyOf(LineOf(i)), ":") # 0
        /\ FirstAt(BodyOf(LineOf(i)), ",") # 0
        /\ pushed[i].ev.variant = "Unknown"

\* The variant a keyword stands for: the empty keyword (a line without ':' has
\* it too) Malformed, a keyword the factory does not know Unknown.
VariantFor(k) ==
    CASE k = << >> -> "Malformed"
      [] k \in NumericKWs -> VariantOfKW(k)
      [] k = holdEventKW -> "Hold"
      [] k = clientEventKW -> "Client"
      [] k \in SimpleKWs -> "Simple"
      [] OTHER -> "Unknown"

\* C26: the variant upgradeEvent gives, or the variant of the origin of its
\* Invalid event, follows from the keyword alone whatever the body; HOLD and the
\* Simple keywords never give Invalid.
C26_VariantByKeyword ==
    \A i \in SinglePushes :
        LET k == KeyOf(LineOf(i))
            e == pushed[i].ev
        IN  /\ Origin(e).variant = VariantFor(k)
            /\ k \in SimpleKWs \cup {holdEventKW} => e.variant # "Invalid"

\* A HOLD line with an empty body has been upgraded, to a Hold event.
C26_Witness ==
    \E i \in SinglePushes :
        /\ KeyOf(LineOf(i)) = holdEventKW
        /\ BodyOf(LineOf(i)) = << >>
        /\ pushed[i].ev.variant = "Hold"

\* The ECHO lines upgraded so far, and the text of a body after its first ','.
EchoPushes == {i \in SinglePushes : SepAt(LineOf(i)) # 0 /\ KeyOf(LineOf(i)) = echoEventKW}
TailField(body) ==
    [n \in 1..(Len(body) - FirstAt(body, ",")) |-> body[n + FirstAt(body, ",")]]

\* C27: an ECHO body with a ',' has its timestamp parsed from the text before
\* the first ',' and its message is all that follows it, also when the timestamp
\* does not parse; a body without ',' gives Invalid wrapping an Echo event with
\* the 'no field sep' error, timestamp 0 and an empty message.
C27_EchoFields ==
    \A i \in EchoPushes :
        LET b == BodyOf(LineOf(i))
            e == pushed[i].ev
            ts == ParseInt(HeadField(b))
        IN  /\ Origin(e).variant = "Echo"
            /\ IF FirstAt(b, ",") # 0
               THEN /\ Origin(e).ts = ts.val
                    /\ Origin(e).msg = TailField(b)
                    /\ (e.variant = "Invalid") = (ts.err # NoErr)
                    /\ e.variant = "Invalid" => e.firstError = ts.err
               ELSE /\ e.variant = "Invalid"
                    /\ e.firstError.kind = "OVpnError"
                    /\ e.firstError.msg = "no field sep ',' found"
                    /\ e.orig.ts = Zero
                    /\ e.orig.msg = << >>

\* An ECHO line whose timestamp does not parse has been upgraded, its message kept.
C27_Witness ==
    \E i \in EchoPushes :
        /\ FirstAt(BodyOf(LineOf(i)), ",") # 0
        /\ ParseInt(HeadField(BodyOf(LineOf(i)))).err # NoErr
        /\ pushed[i].ev.variant = "Invalid"
        /\ pushed[i].ev.orig.msg # << >>

(***************************************************************************)
(* CLIENT blocks and the order of events.                                  *)
(***************************************************************************)
\* The text of a string before its first c and after it.
Before(s, c) == [n \in 1..(FirstAt(s, c) - 1) |-> s[n]]
Behind(s, c) == [n \in 1..(Len(s) - FirstAt(s, c)) |-> s[n + FirstAt(s, c)]]

\* The text of the client id and of the key id of a header line 'CLIENT:T,cid,kid'.
CidText(l) == Before(Behind(l, ","), ",")
KidText(l) == Behind(Behind(l, ","), ",")

\* The name and the value of a continuation line 'CLIENT:ENV,name=value': the
\* text after the first ',' up to its first '=', and all that follows that '='.
EnvName(l) == Before(Behind(l, ","), "=")
EnvValue(l) == Behind(Behind(l, ","), "=")

\* Lines i..j are a CONNECT or REAUTH block with numeric ids and name=value
\* lines, and line j+1, its terminator, has been processed.
ClosedBlock(i, j) ==
    /\ OpenBlock(i, j)
    /\ \E t \in {CEConnect, CEReauth} :
           HasPrefix(evIn[i].line, clientEventKW \o <<eventSep>> \o t \o <<fieldSep>>)
    /\ FirstAt(Behind(evIn[i].line, ","), ",") # 0
    /\ ParseInt(CidText(evIn[i].line)).err = NoErr
    /\ ParseInt(KidText(evIn[i].line)).err = NoErr
    /\ \A m \in (i + 1)..j : FirstAt(Behind(evIn[m].line, ","), "=") # 0
    /\ j < Len(evIn)
    /\ evIn[j + 1].line = emClient
    /\ Processed(j + 1)

\* C28: a CONNECT or REAUTH block with numeric client id and key id, name=value
\* lines and the terminator gives one Client event, not Invalid, with these ids
\* and with exactly the names of the lines in its environment, each with the
\* value of the last line of that name, the line split at its first '='.
C28_ClientBlockFields ==
    \A i \in 1..Len(evIn) : \A j \in i..Len(evIn) :
        ClosedBlock(i, j) =>
            LET e == pushed[evIn[i].npushed + 1].ev
            IN  /\ PushedAt(j + 1) = {evIn[i].npushed + 1}
                /\ e.variant = "Client"
                /\ e.cid = ParseInt(CidText(evIn[i].line)).val
                /\ e.kid = ParseInt(KidText(evIn[i].line)).val
                /\ DOMAIN e.envs = {EnvName(evIn[m].line) : m \in (i + 1)..j}
                /\ \A m \in (i + 1)..j :
                       (\A n \in (m + 1)..j : EnvName(evIn[n].line) # EnvName(evIn[m].line))
                           => e.envs[EnvName(evIn[m].line)] = EnvValue(evIn[m].line)

\* A block with two continuation lines of different names, one with a second '='
\* in its value, has been closed.
C28_Witness ==
    \E i \in 1..(Len(evIn) - 3) :
        /\ ClosedBlock(i, i + 2)
        /\ EnvName(evIn[i + 1].line) # EnvName(evIn[i + 2].line)
        /\ \E m \in {i + 1, i + 2} : FirstAt(EnvValue(evIn[m].line), "=") # 0
        /\ pushed[evIn[i].npushed + 1].ev.kid = <<"2">>

\* The loop body of eventScanner run by itself from a position to the next
\* receive: the events it sends, after those in out, and the buffer it leaves.
RECURSIVE Settle(_, _, _, _, _)
Settle(pc, line, kw, lines, out) ==
    IF pc = "range" THEN [out |-> out, bufKW |-> kw, buf |-> lines]
    ELSE Settle(ScannerAfter(pc, kw, lines), line,
                IF pc \in {"sendSingle", "sendMismatch"} THEN kw ELSE << >>,
                IF pc \in {"sendSingle", "sendMismatch"} THEN lines ELSE << >>,
                Append(out, ScannerEvent(pc, line, kw, lines)))

\* The events of a sequence of event lines, one line after the other with no
\* other task in between.
RECURSIVE Sequential(_)
Sequential(ls) ==
    IF ls = << >> THEN [out |-> << >>, bufKW |-> << >>, buf |-> << >>]
    ELSE LET prev == Sequential(SubSeq(ls, 1, Len(ls) - 1))
             line == DemuxRoute(ls[Len(ls)]).line
             br == ScannerBranch(line, prev.bufKW, prev.buf)
         IN  Settle(br.pc, line, br.bufKW, br.buf, prev.out)

\* The events sent on eventSink so far, in order.
Sent == [n \in 1..Len(pushed) |-> pushed[n].ev]

\* Every line read has been worked off: Demultiplex and eventScanner have returned.
Quiescent == dpc = "done" /\ spc = "done"

\* C29: with no poller, the events on the delivery lane are a function of the
\* line sequence alone: in every schedule they are the first events of the
\* sequence the lines give when run one after the other, and all of them once
\* every line has been worked off.
C29_EventsDependOnLinesOnly ==
    \A ref \in {Sequential(rdLog).out} :
        /\ Len(Sent) <= Len(ref)
        /\ Sent = SubSeq(ref, 1, Len(Sent))
        /\ Quiescent => Sent = ref

\* Four lines have been worked off to the end while the caller took some of the
\* events early and left others waiting: three events, one of them a block.
C29_Witness ==
    /\ Quiescent
    /\ Len(rdLog) = 4
    /\ Len(Sent) = 3
    /\ \E n \in 1..3 : pushed[n].by = "end"
    /\ sink # << >>

(***************************************************************************)
(* Caller commands beside the poller.                                      *)
(***************************************************************************)
\* A command of the caller is in flight; tick t of the poller is in flight.
CallerInFlight == cpc # "idle"
PollerInFlight(t) == tasks[t].pc = "read"

\* The daemon answers 'status 3' with lines that begin with TITLE, and 'state'
\* with none that does.
IsSnapshotLine(l) == HasPrefix(l, status3TitleKW)

\* The reply lines that went to the one who did not ask for them.
Misattributed ==
    {k \in 1..Len(repIn) :
        \/ repIn[k].who = "caller" /\ IsSnapshotLine(repIn[k].line)
        \/ repIn[k].who = "poller" /\ ~IsSnapshotLine(repIn[k].line)
                                   /\ repIn[k].line # endMessage}

\* C30: nothing keeps the poller and the caller apart: a tick that is due writes
\* its command also while a command of the caller is in flight, the caller may
\* issue its command while a tick is in flight, and a reply line that arrives
\* while both are reading may go to either of them.
C30_NoMutualExclusion ==
    \A t \in DOMAIN tasks :
        /\ (tasks[t].pc = "select" /\ tasks[t].tick /\ CallerInFlight)
               => ENABLED PollerSend(t)
        /\ (PollerInFlight(t) /\ cpc = "idle" /\ CallsMade < MaxPollCmds)
               => ENABLED (\E cmd \in PollCmds : CallerCall(cmd, MaxPollCmds))
        /\ (PollerInFlight(t) /\ cpc = "readPayload" /\ dpc = "reply")
               => ENABLED PollerRead(t) /\ ENABLED CallerReadPayload

\* A command of the caller and a tick are in flight at once, and the caller has
\* taken a line of the snapshot the poller asked for.
C30_Witness ==
    /\ CallerInFlight
    /\ \E t \in DOMAIN tasks : PollerInFlight(t)
    /\ \E k \in Misattributed : repIn[k].who = "caller"

(***************************************************************************)
(* The assembler's buffer.                                                 *)
(***************************************************************************)
\* The sends of the keyword-mismatch branch.
MismatchPushes == {n \in 1..Len(pushed) : pushed[n].by \in {"flushMismatch", "sendMismatch"}}

\* C38: the buffer keyword is empty and the buffer holds no line, or the keyword
\* is CLIENT and the buffer holds a line at least; so the keyword-mismatch branch
\* is never taken, and the multi-line factory never gets CLIENT with no line.
C38_BufferShape ==
    /\ \/ bufKW = << >> /\ buf = << >>
       \/ bufKW = clientEventKW /\ Len(buf) >= 1
    /\ spc \notin {"flushMismatch", "sendMismatch"}
    /\ MismatchPushes = {}
    /\ \A n \in 1..Len(pushed) : pushed[n].ev # GoPanic

\* A CLIENT buffer of two lines is open, after a block has been flushed.
C38_Witness ==
    /\ bufKW = clientEventKW
    /\ Len(buf) = 2
    /\ \E n \in 1..Len(pushed) : pushed[n].by = "end"

\* The terminator lines taken with no buffer open, and worked off.
BareEnds ==
    {i \in 1..Len(evIn) :
        /\ evIn[i].line = emClient
        /\ evIn[i].buf = << >>
        /\ evIn[i].bufKW = << >>
        /\ Processed(i)}

\* C32: a terminator that arrives while no buffer is open pushes exactly one
\* event, built from an empty list of bodies, and leaves the assembler Idle.
C32_BareTerminator ==
    \A i \in BareEnds :
        /\ Cardinality(PushedAt(i)) = 1
        /\ \A n \in PushedAt(i) :
               /\ pushed[n].by = "end"
               /\ pushed[n].ev = upgradeMultilineEvent(<< >>, << >>)
               /\ pushed[n].ev.variant = "Malformed"
               /\ Raw(pushed[n].ev) = << >>
        /\ BufAfter(i) = << >>
        /\ BufKWAfter(i) = << >>

\* A terminator has been worked off right after a block was closed.
C32_Witness ==
    \E i \in BareEnds :
        /\ i > 1
        /\ evIn[i - 1].line = emClient
        /\ evIn[i - 1].buf # << >>
        /\ PushedAt(i) # {}

\* The CLIENT header lines taken while a CLIENT buffer was open, and worked off.
HeadersInBlock ==
    {i \in 1..Len(evIn) :
        /\ IsClientHeader(evIn[i].line)
        /\ evIn[i].bufKW = clientEventKW
        /\ Processed(i)}

\* C33: a CLIENT header that arrives while a CLIENT buffer is open starts no new
\* event: nothing is pushed, its body is appended to the buffer, and the next
\* terminator delivers the lines of both blocks as one event.
C33_HeaderJoinsOpenBlock ==
    \A i \in HeadersInBlock :
        /\ PushedAt(i) = {}
        /\ BufKWAfter(i) = clientEventKW
        /\ BufAfter(i) = Append(evIn[i].buf, splitEvent(evIn[i].line).body)
        /\ \A j \in (i + 1)..Len(evIn) :
               (evIn[j].line = emClient /\ Processed(j)
                    /\ \A m \in (i + 1)..(j - 1) : evIn[m].bufKW = clientEventKW
                                                    /\ evIn[m].line # emClient
                                                    /\ ~IsSingleLine(evIn[m].line))
                   => /\ Cardinality(PushedAt(j)) = 1
                      /\ \A n \in PushedAt(j) :
                             pushed[n].ev = upgradeMultilineEvent(clientEventKW, evIn[j].buf)
                      /\ Len(evIn[j].buf) >= Len(evIn[i].buf) + 1
                      /\ SubSeq(evIn[j].buf, 1, Len(evIn[i].buf) + 1) = BufAfter(i)

\* Two headers and the terminator have been worked off: one event for the two.
C33_Witness ==
    \E i \in HeadersInBlock :
        /\ i + 1 <= Len(evIn)
        /\ evIn[i + 1].line = emClient
        /\ Processed(i + 1)
        /\ Len(evIn[i + 1].buf) = 2
        /\ Cardinality(PushedAt(i + 1)) = 1
        /\ PushedAt(i) = {} /\ PushedAt(i - 1) = {}

(***************************************************************************)
(* Stopping the poller.                                                    *)
(***************************************************************************)
\* Generator t has been told to stop while inside a tick.
StoppedInTick(t) == InTick(t) /\ tasks[t].done \in chClosed

C35_SetCallsDoNotRace ==
    /\ ~panicked
    /\ setCalls = << >> => \A t \in LiveTasks : tasks[t].done = doneGen

(***************************************************************************)
(* Replies of several lines that carry a result marker.                    *)
(***************************************************************************)
\* A line that begins with one of the markers of a simple reply.
IsResultLine(l) == HasPrefix(l, errorPrefix) \/ HasPrefix(l, successPrefix)

\* The step is a payload read of the caller that takes the line Demultiplex holds.
TakesPayloadLine == cpc = "readPayload" /\ dpc = "reply" /\ repIn' # repIn

\* C36: the read of a reply of several lines knows no 'ERROR: ' and no
\* 'SUCCESS: ' marker: such a line is added to the payload like any other and the
\* call goes on waiting; while the connection is open the call returns at an END
\* line and at nothing else.
C36_MarkersAreBodyLines ==
    [][/\ (TakesPayloadLine /\ IsResultLine(dline)) =>
              /\ cpc' = "readPayload"
              /\ clines' = Append(clines, dline)
              /\ results' = results
       /\ (cpc = "readPayload" /\ cpc' = "idle" /\ ~repClosed) =>
              /\ TakesPayloadLine
              /\ dline = endMessage]_vars

\* The only line the daemon has sent so far is an ERROR line: the call holds it
\* as its payload and waits, the connection open.
C36_Witness ==
    /\ cpc = "readPayload"
    /\ Len(clines) = 1
    /\ HasPrefix(clines[1], errorPrefix)
    /\ Len(rdLog) = 1
    /\ dReply = << >>
    /\ dpc = "scan"
    /\ ~srcClosed
    /\ results = << >>


\* The i-th line taken from the event lane is a terminator.
IsTerminator(i) == evIn[i].line = splitEvent(evIn[i].line).endMarker

\* The i-th line was appended to the buffer, and the buffer has kept it up to the
\* arrival of line k + 1.
KeptUpTo(i, k) ==
    /\ BufAfter(i) = Append(evIn[i].buf, splitEvent(evIn[i].line).body)
    /\ \A m \in i..k :
           /\ Len(BufAfter(m)) >= Len(BufAfter(i))
           /\ SubSeq(BufAfter(m), 1, Len(BufAfter(i))) = BufAfter(i)

\* The pushed events that contain the i-th line: the event made of the line by
\* itself, or an event made of a buffer that held the line.
Holders(i) ==
    {n \in 1..Len(pushed) :
        \/ /\ pushed[n].by \in {"single", "sendMismatch"}
           /\ pushed[n].at = i
           /\ pushed[n].ev = upgradeEvent(splitEvent(evIn[i].line).keyword,
                                          splitEvent(evIn[i].line).body)
        \/ /\ pushed[n].by \in {"end", "anomaly", "flushMismatch"}
           /\ i < pushed[n].at
           /\ KeptUpTo(i, pushed[n].at - 1)
           /\ pushed[n].ev = upgradeMultilineEvent(evIn[pushed[n].at].bufKW,
                                                   evIn[pushed[n].at].buf)}

\* The number of places that hold the i-th line: the pushed events and the buffer.
Places(i) == Cardinality(Holders(i)) + (IF KeptUpTo(i, Len(evIn)) THEN 1 ELSE 0)

\* C37: with the poller off and the event lane open, every line the assembler has
\* taken from the event lane and dealt with, other than a terminator, is in exactly
\* one place: one event pushed onto the delivery lane, or the open buffer.
C37_NoLineLostOrDoubled ==
    (~evClosed /\ tasks = << >>) =>
        \A i \in 1..Len(evIn) :
            (Processed(i) /\ ~IsTerminator(i)) => Places(i) = 1

\* A block has been flushed by its terminator, a single line pushed after it, and
\* a new header waits in the buffer, the event lane open.
C37_Witness ==
    /\ ~evClosed
    /\ tasks = << >>
    /\ Len(evIn) = 4
    /\ spc = "range"
    /\ IsTerminator(2)
    /\ Holders(1) # {}
    /\ pushed[CHOOSE n \in Holders(1) : TRUE].by = "end"
    /\ Holders(3) # {}
    /\ KeptUpTo(4, 4)
    /\ buf # << >>


\* The calls that returned without their command having been written.
FailedWrites == {k \in 1..Len(results) : ~results[k].sent}

\* C39: a command call, simple or multi-line, waits for a reply only once its
\* command is written; a call whose write fails returns in that very step, with
\* the write error and no payload, and the step leaves alone the reply lane (what
\* was taken from it, the line Demultiplex offers, the commands awaiting an answer)
\* and the delivery lane.
C39_FailedWriteTouchesNothing ==
    [][/\ (cpc = "idle" /\ cpc' # "idle") => written' = Append(written, ccmd')
       /\ (Len(results') > Len(results) /\ ~results'[Len(results')].sent) =>
              /\ cpc = "idle"
              /\ cpc' = "idle"
              /\ results' = Append(results, results'[Len(results')])
              /\ results'[Len(results')].err = ErrWrite
              /\ results'[Len(results')].ret.err = ErrWrite
              /\ results'[Len(results')].result = << >>
              /\ results'[Len(results')].lines = << >>
              /\ UNCHANGED <<repIn, written, dpc, dline, repClosed, rdLog>>
              /\ UNCHANGED <<sink, sinkClosed, pushed>>]_vars

\* A simple command and a multi-line command have both failed at their write,
\* after lines had gone through the client.
C39_Witness ==
    /\ \E k \in FailedWrites : results[k].cmd = "pid" /\ results[k].err = ErrWrite
    /\ \E k \in FailedWrites : results[k].cmd = "state" /\ results[k].err = ErrWrite
    /\ rdLog # << >>
    /\ cpc = "idle"


\* The (n, k) the splitting rule is tried with, besides those of the factories.
MaxSplitN == 3
SplitArgs ==
    {a \in (1..MaxSplitN) \X (1..MaxSplitN) : a[1] >= a[2]} \cup {<<3, 3>>, <<9, 5>>}

\* The number of separators in a string, and of the pieces a split into at most n
\* pieces gives.
Seps(s) == Cardinality({i \in 1..Len(s) : s[i] = fieldSep})
Pieces(s, n) == IF Seps(s) + 1 < n THEN Seps(s) + 1 ELSE n

\* r is body split by the rule with n and k: the pieces, joined by the separator,
\* are the body; only the last of n pieces holds a separator; what follows the
\* pieces is empty strings, up to k parts.
SplitByRule(r, body, n, k) ==
    /\ Len(r) = (IF Pieces(body, n) < k THEN k ELSE Pieces(body, n))
    /\ Len(r) >= k
    /\ Len(r) <= n
    /\ Join(SubSeq(r, 1, Pieces(body, n)), <<fieldSep>>) = body
    /\ \A j \in 1..Pieces(body, n) : (j < n) => Index(r[j], fieldSep) = -1
    /\ \A j \in (Pieces(body, n) + 1)..Len(r) : r[j] = << >>

\* C40: stringsSplitNK(s, sep, n, k) with n >= k >= 1 returns the pieces of s split
\* into at most n, padded with empty strings to k parts, so between k and n parts;
\* hence a Log event has 3 fields and a State event 5 to 9 for every body, a
\* missing field being the empty string.
C40_SplitPadded ==
    \A i \in 1..Len(evIn) :
        LET body == splitEvent(evIn[i].line).body
        IN  /\ \A a \in SplitArgs :
                   SplitByRule(stringsSplitNK(body, fieldSep, a[1], a[2]), body, a[1], a[2])
            /\ SplitByRule(NewLogEvent(body).evt.bodyParts, body, 3, 3)
            /\ SplitByRule(NewStateEvent(body).evt.bodyParts, body, 9, 5)
            /\ \A n \in PushedAt(i) :
                   /\ pushed[n].ev.variant = "Log" =>
                          /\ Len(pushed[n].ev.bodyParts) = 3
                          /\ \A j \in (Seps(body) + 2)..3 : pushed[n].ev.bodyParts[j] = << >>
                   /\ pushed[n].ev.variant = "State" =>
                          /\ Len(pushed[n].ev.bodyParts) \in 5..9
                          /\ \A j \in (Seps(body) + 2)..5 : pushed[n].ev.bodyParts[j] = << >>

\* A Log event has been pushed whose body had two fields: its third is empty.
C40_Witness ==
    \E n \in 1..Len(pushed) :
        /\ pushed[n].ev.variant = "Log"
        /\ Seps(pushed[n].ev.body) = 1
        /\ pushed[n].ev.bodyParts[3] = << >>
        /\ pushed[n].ev.bodyParts[2] # << >>

=============================================================================
